---- MODULE Spec2Model ----
(***************************************************************************)
(* mongooat: the path-addressed tree transformations of the helpers        *)
(* (processUndefinedFields.ts, deleteField.ts, generateSchema.ts,          *)
(* validateSchema.ts).  Documents and Zod schemas live in a heap of        *)
(* JavaScript objects, so that in-place mutation and sharing between the   *)
(* caller's value and a result are part of the model.                      *)
(***************************************************************************)
EXTENDS Integers, Sequences, FiniteSets, TLC

VARIABLES
    heap,     \* the JavaScript heap: a sequence of cells, address = index
    data,     \* the value the caller passes (a reference to the document)
    before,   \* the caller's document, as a tree, when the call was made
    path,     \* deleteField: the path argument, split at "."
    set,      \* the value returned as set (or by removeUndefinedFields)
    unset,    \* the key set of the unset record (every payload is "")
    set2,     \* result of a second decomposition (of set, or of data again)
    unset2,
    threw,    \* TRUE when the call ended with a TypeError
    pc,
    schema,   \* the model's Zod schema (a reference into the heap)
    original, \* the model's schema, as a tree, when the model was defined
    result,   \* the schema a narrowing call returned
    paths,    \* createSchemaFromPaths: the paths argument, each split at "."
    err,      \* validateSchema: the issues collected, in order
    option,   \* the options argument of the Model method called
    outcome,  \* how the call ended: "ok" or the name of the error it threw
    outcome2, \* tryParse: what the returned promise resolved to
    driver,   \* the calls made on the MongoDB collection, in order
    ops,      \* bulkWrite: the operations argument
    errMap,   \* bulkWrite: the validateErrors collected, in order
    methods,  \* ModelMethodWorker._methods: the own properties of the record
    called    \* the functions trigger invoked, in order

vars == <<heap, data, before, path, set, unset, set2, unset2, threw, pc,
          schema, original, result, paths, err,
          option, outcome, outcome2, driver, ops, errMap, methods, called>>

\* the variables of the schema helpers
svars == <<schema, original, result, paths, err>>

\* the variables of the Model methods
mvars == <<option, outcome, outcome2, driver, ops, errMap, methods, called>>

----------------------------------------------------------------------------
(* Bounds of the model.                                                    *)

\* a document of the decomposer has at most MaxNodes values (containers and leaves)
MaxNodes == 5
\* a document handed to deleteField has at most MaxDelNodes values
MaxDelNodes == 5
\* a path has at most MaxPathLen segments
MaxPathLen == 3

\* property names of the documents, in insertion (for-in) order
KeyOrder == <<"a", "b">>
Keys == {KeyOrder[i] : i \in 1..Len(KeyOrder)}

----------------------------------------------------------------------------
(* JavaScript values.  A tree is a value written out in full; in the heap   *)
(* a container is a cell and a value holds a reference to it.              *)

UNDEF == [t |-> "undef"]
NULL  == [t |-> "null"]
Num(n) == [t |-> "num", v |-> n]
DATE  == [t |-> "date"]
Obj(f) == [t |-> "obj", f |-> f]
Arr(e) == [t |-> "arr", e |-> e]
Ref(a) == [t |-> "ref", a |-> a]

\* the keys of an object in for-in order
OrderedKeys(f) == SelectSeq(KeyOrder, LAMBDA k : k \in DOMAIN f)

\* `${index}` : the decimal string of a zero-based array index
IndexKey(i) == ToString(i - 1)

RECURSIVE Alloc(_, _), AllocSeq(_, _)
\* builds tree in heap h; yields the new heap and the value denoting the tree
Alloc(h, tree) ==
    IF tree.t \in {"undef", "null", "num"} THEN [h |-> h, v |-> tree]
    ELSE IF tree.t = "date" THEN [h |-> Append(h, DATE), v |-> Ref(Len(h) + 1)]
    ELSE IF tree.t = "arr" THEN
        LET r == AllocSeq(h, tree.e)
        IN  [h |-> Append(r.h, Arr(r.vs)), v |-> Ref(Len(r.h) + 1)]
    ELSE
        LET ks == OrderedKeys(tree.f)
            r  == AllocSeq(h, [i \in 1..Len(ks) |-> tree.f[ks[i]]])
            f  == [k \in DOMAIN tree.f |->
                      r.vs[CHOOSE i \in 1..Len(ks) : ks[i] = k]]
        IN  [h |-> Append(r.h, Obj(f)), v |-> Ref(Len(r.h) + 1)]
AllocSeq(h, trees) ==
    IF trees = <<>> THEN [h |-> h, vs |-> <<>>]
    ELSE LET r1 == Alloc(h, Head(trees))
             r2 == AllocSeq(r1.h, Tail(trees))
         IN  [h |-> r2.h, vs |-> <<r1.v>> \o r2.vs]

RECURSIVE Deref(_, _)
\* the tree that value v denotes in heap h
Deref(h, v) ==
    IF v.t # "ref" THEN v
    ELSE LET c == h[v.a] IN
         IF c.t = "date" THEN DATE
         ELSE IF c.t = "arr" THEN Arr([i \in 1..Len(c.e) |-> Deref(h, c.e[i])])
         ELSE Obj([k \in DOMAIN c.f |-> Deref(h, c.f[k])])

RECURSIVE Reach(_, _)
\* the addresses of the cells reachable from value v
Reach(h, v) ==
    IF v.t # "ref" THEN {}
    ELSE LET c == h[v.a] IN
         {v.a} \cup
         (IF c.t = "arr" THEN UNION {Reach(h, c.e[i]) : i \in 1..Len(c.e)}
          ELSE IF c.t = "obj" THEN UNION {Reach(h, c.f[k]) : k \in DOMAIN c.f}
          ELSE {})

\* typeof v === "object" && v !== null
IsObjectLike(v) == v.t = "ref"
\* Array.isArray(v)
IsArray(h, v) == v.t = "ref" /\ h[v.a].t = "arr"

----------------------------------------------------------------------------
(* The input documents: every tree with a bounded number of values.        *)

Leaves == {UNDEF, NULL, Num(1), DATE}

\* the object with key set K whose values, in for-in order, are the trees s
ObjOf(K, s) ==
    LET ks == SelectSeq(KeyOrder, LAMBDA k : k \in K)
    IN  Obj([k \in K |-> s[CHOOSE i \in 1..Len(ks) : ks[i] = k]])

RECURSIVE SeqsOfSize(_, _, _)
\* the sequences of k trees with n values in all; table[m] holds the trees
\* of exactly m values
SeqsOfSize(table, k, n) ==
    IF k = 0 THEN (IF n = 0 THEN {<<>>} ELSE {})
    ELSE IF n < k THEN {}
    ELSE UNION {
            {<<x>> \o rest : x \in table[m],
                             rest \in SeqsOfSize(table, k - 1, n - m)}
            : m \in 1..(n - k + 1) }

\* the trees of exactly n values, n > 1, built from the smaller ones
TreesOfSize(table, n) ==
    {Arr(s) : s \in UNION {SeqsOfSize(table, k, n - 1) : k \in 1..(n - 1)}}
    \cup
    UNION {{ObjOf(K, s) : s \in SeqsOfSize(table, Cardinality(K), n - 1)} :
               K \in (SUBSET Keys) \ {{}}}

RECURSIVE TreeTable(_, _)
\* table extended up to the trees of maxSize values
TreeTable(table, maxSize) ==
    IF Len(table) >= maxSize THEN table
    ELSE CHOOSE full \in {TreeTable(next, maxSize) :
                               next \in {Append(table, TreesOfSize(table, Len(table) + 1))}} :
             TRUE

\* the trees a document of at most MaxNodes values is made of
DocTable == TreeTable(<<Leaves \cup {Obj(<<>>), Arr(<<>>)}>>, MaxNodes - 1)

\* doc is a document of at most maxSize values built from table: a document
\* is an object (T extends Record<string | number, unknown>)
IsDoc(doc, table, maxSize) ==
    \E n \in 1..maxSize : \E K \in SUBSET Keys :
        \E s \in SeqsOfSize(table, Cardinality(K), n - 1) : doc = ObjOf(K, s)

----------------------------------------------------------------------------
(* processUndefinedFields.ts                                               *)

RECURSIVE buildUnsetMap(_, _, _), unsetEntry(_, _, _)
\* the keys written to unset by buildUnsetMap(obj, parentKey); a key is the
\* sequence of its dot-separated segments (property names hold no ".")
buildUnsetMap(h, obj, parentKey) ==
    IF obj.t # "ref" THEN {}             \* for-in over a primitive, null or undefined
    ELSE LET c == h[obj.a] IN
         IF c.t = "obj" THEN
             UNION {unsetEntry(h, c.f[key], parentKey \o <<key>>) : key \in DOMAIN c.f}
         ELSE IF c.t = "arr" THEN
             UNION {unsetEntry(h, c.e[i], parentKey \o <<IndexKey(i)>>) :
                        i \in 1..Len(c.e)}
         ELSE {}                         \* a Date has no enumerable property
\* the body of the for-in loop for one key with value x
unsetEntry(h, x, fullKey) ==
    IF x = UNDEF THEN {fullKey}
    ELSE IF IsObjectLike(x) THEN
        IF IsArray(h, x) THEN
            UNION {buildUnsetMap(h, h[x.a].e[i], fullKey \o <<IndexKey(i)>>) :
                       i \in 1..Len(h[x.a].e)}
        ELSE buildUnsetMap(h, x, fullKey)
    ELSE {}

\* no copy at all: the working copy is the caller's document
structuredClone_alias(h, v) == [h |-> h, v |-> v]
\* structuredClone(v): a deep copy in fresh cells
structuredClone(h, v) == Alloc(h, Deref(h, v))

\* a filter that also drops null (item != undefined)
keepItem_loose(item) == item # UNDEF /\ item # NULL
\* the filter predicate (item) => item !== undefined
keepItem(item) == item # UNDEF

RECURSIVE cleanObject(_, _), cleanItems(_, _), cleanKeys(_, _, _)
\* cleanObject(obj) of removeUndefinedFields: yields the heap and the value returned
cleanObject(h, obj) ==
    IF IsArray(h, obj) THEN
        LET kept == SelectSeq(h[obj.a].e, keepItem)
            r    == cleanItems(h, kept)
        IN  [h |-> Append(r.h, Arr(r.vs)), v |-> Ref(Len(r.h) + 1)]
    ELSE IF IsObjectLike(obj) THEN
        IF h[obj.a].t = "obj"
        THEN [h |-> cleanKeys(h, obj.a, OrderedKeys(h[obj.a].f)), v |-> obj]
        ELSE [h |-> h, v |-> obj]
    ELSE [h |-> h, v |-> obj]
\* the .map() over the filtered items
cleanItems(h, items) ==
    IF items = <<>> THEN [h |-> h, vs |-> <<>>]
    ELSE LET r1 == IF IsObjectLike(Head(items)) THEN cleanObject(h, Head(items))
                   ELSE [h |-> h, v |-> Head(items)]
             r2 == cleanItems(r1.h, Tail(items))
         IN  [h |-> r2.h, vs |-> <<r1.v>> \o r2.vs]
\* the for-in loop over the keys ks of the object at address a
cleanKeys(h, a, ks) ==
    IF ks = <<>> THEN h
    ELSE LET key == Head(ks)
             x   == h[a].f[key]
         IN  IF x = UNDEF THEN
                 cleanKeys([h EXCEPT ![a].f = [k \in DOMAIN @ \ {key} |-> @[k]]],
                           a, Tail(ks))
             ELSE IF IsObjectLike(x) THEN
                 LET r == cleanObject(h, x)
                 IN  cleanKeys([r.h EXCEPT ![a].f[key] = r.v], a, Tail(ks))
             ELSE cleanKeys(h, a, Tail(ks))

removeUndefinedFields(h, d) == cleanObject(h, d)

\* Object.prototype.toString.call(value) === "[object Object]"
isPlainObject(h, value) == value.t = "ref" /\ h[value.a].t = "obj"

RECURSIVE removeEmptyObjects(_, _), removeEmptyKeys(_, _, _)
\* removeEmptyObjects(obj): mutates the object in place, yields the heap
removeEmptyObjects(h, obj) == removeEmptyKeys(h, obj.a, OrderedKeys(h[obj.a].f))
\* the emptiness test made before the recursion instead of after it
removeEmptyKeys_parentFirst(h, a, ks) ==
    IF ks = <<>> THEN h
    ELSE LET key   == Head(ks)
             value == h[a].f[key]
         IN  IF isPlainObject(h, value) THEN
                 LET h1 == removeEmptyObjects(h, value)
                     h2 == IF DOMAIN h[value.a].f = {}
                           THEN [h1 EXCEPT ![a].f = [k \in DOMAIN @ \ {key} |-> @[k]]]
                           ELSE h1
                 IN  removeEmptyKeys(h2, a, Tail(ks))
             ELSE removeEmptyKeys(h, a, Tail(ks))
\* the for-in loop of removeEmptyObjects over the keys ks of the object at a
removeEmptyKeys(h, a, ks) ==
    IF ks = <<>> THEN h
    ELSE LET key   == Head(ks)
             value == h[a].f[key]
         IN  IF isPlainObject(h, value) THEN
                 LET h1 == removeEmptyObjects(h, value)
                     h2 == IF DOMAIN h1[value.a].f = {}
                           THEN [h1 EXCEPT ![a].f = [k \in DOMAIN @ \ {key} |-> @[k]]]
                           ELSE h1
                 IN  removeEmptyKeys(h2, a, Tail(ks))
             ELSE removeEmptyKeys(h, a, Tail(ks))

\* processUndefinedFieldsForUpdate(data): the heap after the call, set and unset
processUndefinedFieldsForUpdate(h, d) ==
    LET u  == buildUnsetMap(h, d, <<>>)
        c  == structuredClone(h, d)
        r  == removeUndefinedFields(c.h, c.v)
        h2 == removeEmptyObjects(r.h, r.v)
    IN  [h |-> h2, set |-> r.v, unset |-> u]

----------------------------------------------------------------------------
(* The decomposer as a state machine: a caller holds a document, calls     *)
(* the decomposer on it, and afterwards decomposes the returned set again, *)
(* decomposes the same document again, or mutates the returned set.        *)

NONE == [t |-> "none"]

\* no schema is involved
NoSchema ==
    schema = NONE /\ original = NONE /\ result = NONE /\ paths = <<>> /\ err = <<>>

\* no Model method is involved
NoModel ==
    /\ option = NONE /\ outcome = "none" /\ outcome2 = "none"
    /\ driver = <<>> /\ ops = <<>> /\ errMap = <<>>
    /\ methods = <<>> /\ called = <<>>

InitDecompose ==
    /\ IsDoc(before, DocTable, MaxNodes)
    /\ LET r == Alloc(<<>>, before)
       IN  heap = r.h /\ data = r.v
    /\ path = <<>>
    /\ set = NONE /\ unset = {} /\ set2 = NONE /\ unset2 = {}
    /\ threw = FALSE
    /\ pc = "start"
    /\ NoSchema
    /\ NoModel

\* const { set, unset } = processUndefinedFieldsForUpdate(update)
Decompose ==
    /\ pc = "start"
    /\ LET r == processUndefinedFieldsForUpdate(heap, data)
       IN  heap' = r.h /\ set' = r.set /\ unset' = r.unset
    /\ pc' = "decomposed"
    /\ UNCHANGED <<data, before, path, set2, unset2, threw>>
    /\ UNCHANGED svars
    /\ UNCHANGED mvars

\* removeUndefinedFields(doc) called directly on the caller's document
RemoveUndefined ==
    /\ pc = "start"
    /\ LET r == removeUndefinedFields(heap, data)
       IN  heap' = r.h /\ set' = r.v
    /\ pc' = "removed"
    /\ UNCHANGED <<data, before, path, unset, set2, unset2, threw>>
    /\ UNCHANGED svars
    /\ UNCHANGED mvars

\* the decomposer run on the set of the first decomposition
DecomposeSet ==
    /\ pc = "decomposed"
    /\ LET r == processUndefinedFieldsForUpdate(heap, set)
       IN  heap' = r.h /\ set2' = r.set /\ unset2' = r.unset
    /\ pc' = "redecomposed"
    /\ UNCHANGED <<data, before, path, set, unset, threw>>
    /\ UNCHANGED svars
    /\ UNCHANGED mvars

\* a second call on the same document
DecomposeAgain ==
    /\ pc = "decomposed"
    /\ LET r == processUndefinedFieldsForUpdate(heap, data)
       IN  heap' = r.h /\ set2' = r.set /\ unset2' = r.unset
    /\ pc' = "again"
    /\ UNCHANGED <<data, before, path, set, unset, threw>>
    /\ UNCHANGED svars
    /\ UNCHANGED mvars

\* the caller mutates the returned set: any container of it loses its content
MutateSet ==
    /\ pc = "decomposed"
    /\ \E a \in Reach(heap, set) :
          /\ heap[a].t \in {"obj", "arr"}
          /\ heap' = [heap EXCEPT ![a] = IF @.t = "obj" THEN Obj(<<>>) ELSE Arr(<<>>)]
          /\ heap' # heap
    /\ pc' = "mutated"
    /\ UNCHANGED <<data, before, path, set, unset, set2, unset2, threw>>
    /\ UNCHANGED svars
    /\ UNCHANGED mvars

NextDecompose ==
    \/ Decompose
    \/ RemoveUndefined
    \/ DecomposeSet
    \/ DecomposeAgain
    \/ MutateSet

SpecDecompose == InitDecompose /\ [][NextDecompose]_vars

----------------------------------------------------------------------------
(* deleteField.ts                                                          *)

\* the reserved wildcard segment
DEFAULT_ARRAY_PATH_KEY == "<idx>"

\* the segments a path may hold: property names, the wildcard and an index
PathSegs == Keys \cup {DEFAULT_ARRAY_PATH_KEY, "0"}

\* largest index written as a decimal literal in a path
MaxIndexLiteral == 3

\* Number(lastKey): nan for a string that is no numeric literal, else the
\* sign and the integer part of the number
NumberOf(seg) ==
    IF seg = "" THEN [nan |-> FALSE, neg |-> FALSE, int |-> 0]
    ELSE IF \E n \in 0..MaxIndexLiteral : ToString(n) = seg
    THEN [nan |-> FALSE, neg |-> FALSE,
          int |-> CHOOSE n \in 0..MaxIndexLiteral : ToString(n) = seg]
    ELSE IF seg = "-1" THEN [nan |-> FALSE, neg |-> TRUE, int |-> 1]
    ELSE IF seg = "5e-1" THEN [nan |-> FALSE, neg |-> FALSE, int |-> 0]
    ELSE [nan |-> TRUE, neg |-> FALSE, int |-> 0]

\* current[key] for a value that is neither null nor undefined
GetProp(h, current, key) ==
    IF current.t # "ref" THEN UNDEF                 \* a number has no such property
    ELSE LET c == h[current.a] IN
         IF c.t = "obj" THEN (IF key \in DOMAIN c.f THEN c.f[key] ELSE UNDEF)
         ELSE IF c.t = "arr" THEN
             IF \E i \in 1..Len(c.e) : IndexKey(i) = key
             THEN c.e[CHOOSE i \in 1..Len(c.e) : IndexKey(i) = key]
             ELSE UNDEF
         ELSE UNDEF

\* reading or deleting a property of null or undefined is a TypeError
IsNullish(v) == v.t \in {"undef", "null"}

\* a terminal segment that clears nothing on an array
deleteLast_noClear(h, current, lastKey) ==
    LET index == NumberOf(lastKey) IN
    IF ~index.nan /\ IsArray(h, current) THEN
        IF ~index.neg /\ index.int < Len(h[current.a].e)
        THEN [h |-> [h EXCEPT ![current.a].e =
                        [j \in 1..(Len(@) - 1) |-> IF j <= index.int THEN @[j] ELSE @[j + 1]]],
              ok |-> TRUE]
        ELSE [h |-> h, ok |-> TRUE]
    ELSE IF IsNullish(current) THEN [h |-> h, ok |-> FALSE]
    ELSE IF current.t = "ref" /\ h[current.a].t = "obj" THEN
        [h |-> [h EXCEPT ![current.a].f = [k \in DOMAIN @ \ {lastKey} |-> @[k]]],
         ok |-> TRUE]
    ELSE [h |-> h, ok |-> TRUE]
\* the statements after the loop: the terminal segment acts on current
deleteLast(h, current, lastKey) ==
    LET index == NumberOf(lastKey) IN
    IF ~index.nan /\ IsArray(h, current) THEN
        IF ~index.neg /\ index.int < Len(h[current.a].e)
        THEN \* current.splice(index, 1)
             [h |-> [h EXCEPT ![current.a].e =
                        [j \in 1..(Len(@) - 1) |-> IF j <= index.int THEN @[j] ELSE @[j + 1]]],
              ok |-> TRUE]
        ELSE [h |-> h, ok |-> TRUE]
    ELSE IF lastKey = DEFAULT_ARRAY_PATH_KEY /\ IsArray(h, current) THEN
        \* current.splice(0, current.length)
        [h |-> [h EXCEPT ![current.a].e = <<>>], ok |-> TRUE]
    ELSE \* delete current[lastKey]
        IF IsNullish(current) THEN [h |-> h, ok |-> FALSE]
        ELSE IF current.t = "ref" /\ h[current.a].t = "obj" THEN
            [h |-> [h EXCEPT ![current.a].f = [k \in DOMAIN @ \ {lastKey} |-> @[k]]],
             ok |-> TRUE]
        ELSE [h |-> h, ok |-> TRUE]

\* an intermediate segment naming a key that is absent is walked through
absentStops_never(h, current, key) == FALSE
\* if (current[keys[i]] === undefined) return
absentStops(h, current, key) == GetProp(h, current, key) = UNDEF

RECURSIVE deleteField(_, _, _), deleteWalk(_, _, _, _), deleteEach(_, _, _)
\* deleteField(obj, path), keys = path.split("."): the heap after the call
\* and whether the call returned normally
deleteField(h, obj, keys) == deleteWalk(h, obj, keys, 1)
\* the for loop at iteration i, then the terminal segment
deleteWalk(h, current, keys, i) ==
    IF i < Len(keys) THEN
        IF keys[i] = DEFAULT_ARRAY_PATH_KEY /\ IsArray(h, current)
        THEN deleteEach(h, h[current.a].e, SubSeq(keys, i + 1, Len(keys)))
        ELSE IF IsNullish(current) THEN [h |-> h, ok |-> FALSE]
        ELSE IF absentStops(h, current, keys[i]) THEN [h |-> h, ok |-> TRUE]
        ELSE deleteWalk(h, GetProp(h, current, keys[i]), keys, i + 1)
    ELSE deleteLast(h, current, keys[Len(keys)])
\* current.forEach((item) => deleteField(item, rest)): stops at the first throw
deleteEach(h, items, rest) ==
    IF items = <<>> THEN [h |-> h, ok |-> TRUE]
    ELSE LET r == deleteField(h, Head(items), rest)
         IN  IF r.ok THEN deleteEach(r.h, Tail(items), rest) ELSE r

----------------------------------------------------------------------------
(* deleteField as a state machine: a caller holds a fetched document and   *)
(* deletes one path from it.                                               *)

\* a fetched document holds no undefined
DelLeaves == {NULL, Num(1)}
DelTable == TreeTable(<<DelLeaves \cup {Obj(<<>>), Arr(<<>>)}>>, MaxDelNodes - 1)

RECURSIVE PathsUpTo(_)
\* the paths of at most n segments
PathsUpTo(n) ==
    IF n = 0 THEN {}
    ELSE {<<seg>> : seg \in PathSegs}
         \cup {Append(p, seg) : p \in PathsUpTo(n - 1), seg \in PathSegs}

Paths == PathsUpTo(MaxPathLen)

InitDelete ==
    /\ IsDoc(before, DelTable, MaxDelNodes)
    /\ LET r == Alloc(<<>>, before)
       IN  heap = r.h /\ data = r.v
    /\ path = <<>>
    /\ set = NONE /\ unset = {} /\ set2 = NONE /\ unset2 = {}
    /\ threw = FALSE
    /\ pc = "start"
    /\ NoSchema
    /\ NoModel

\* deleteField(item, field)
DeleteField ==
    /\ pc = "start"
    /\ \E keys \in Paths :
          LET r == deleteField(heap, data, keys)
          IN  heap' = r.h /\ threw' = ~r.ok /\ path' = keys
    /\ pc' = "deleted"
    /\ UNCHANGED <<data, before, set, unset, set2, unset2>>
    /\ UNCHANGED svars
    /\ UNCHANGED mvars

NextDelete == DeleteField

SpecDelete == InitDelete /\ [][NextDelete]_vars

----------------------------------------------------------------------------
(* Reading trees by path, for the statements about the decomposer.         *)

\* the child of tree under one path segment, NONE when there is none
Child(tree, seg) ==
    IF tree.t = "obj" THEN (IF seg \in DOMAIN tree.f THEN tree.f[seg] ELSE NONE)
    ELSE IF tree.t = "arr" THEN
        IF \E i \in 1..Len(tree.e) : IndexKey(i) = seg
        THEN tree.e[CHOOSE i \in 1..Len(tree.e) : IndexKey(i) = seg]
        ELSE NONE
    ELSE NONE

RECURSIVE Resolve(_, _)
\* the value at path p of tree, NONE when the path leaves the tree
Resolve(tree, p) ==
    IF p = <<>> THEN tree
    ELSE IF tree = NONE THEN NONE
    ELSE Resolve(Child(tree, Head(p)), Tail(p))

RECURSIVE PathsOf(_)
\* every position of tree below its root: object keys and array indices
PathsOf(tree) ==
    IF tree.t = "obj" THEN
        UNION {{<<k>>} \cup {<<k>> \o q : q \in PathsOf(tree.f[k])} : k \in DOMAIN tree.f}
    ELSE IF tree.t = "arr" THEN
        UNION {{<<IndexKey(i)>>} \cup {<<IndexKey(i)>> \o q : q \in PathsOf(tree.e[i])} :
                   i \in 1..Len(tree.e)}
    ELSE {}

RECURSIVE Flatten(_)
Flatten(ss) == IF ss = <<>> THEN <<>> ELSE Head(ss) \o Flatten(Tail(ss))

RECURSIVE LeavesOf(_, _)
\* the non-sentinel scalar leaves of tree in document order, each with the
\* property names that lead to it ("#" stands for an array position)
LeavesOf(tree, prefix) ==
    IF tree = UNDEF THEN <<>>
    ELSE IF tree.t = "obj" THEN
        LET ks == OrderedKeys(tree.f)
        IN  Flatten([i \in 1..Len(ks) |-> LeavesOf(tree.f[ks[i]], prefix \o <<ks[i]>>)])
    ELSE IF tree.t = "arr" THEN
        Flatten([i \in 1..Len(tree.e) |-> LeavesOf(tree.e[i], prefix \o <<"#">>)])
    ELSE << <<prefix, tree>> >>

RECURSIVE HasSentinel(_)
HasSentinel(tree) ==
    \/ tree = UNDEF
    \/ tree.t = "obj" /\ \E k \in DOMAIN tree.f : HasSentinel(tree.f[k])
    \/ tree.t = "arr" /\ \E i \in 1..Len(tree.e) : HasSentinel(tree.e[i])

RECURSIVE Strip(_)
\* tree without its sentinel-valued keys and its sentinel array elements
Strip(tree) ==
    IF tree.t = "obj" THEN
        Obj([k \in {j \in DOMAIN tree.f : tree.f[j] # UNDEF} |-> Strip(tree.f[k])])
    ELSE IF tree.t = "arr" THEN
        LET kept == SelectSeq(tree.e, LAMBDA x : x # UNDEF)
        IN  Arr([i \in 1..Len(kept) |-> Strip(kept[i])])
    ELSE tree

RECURSIVE HasEmptyObjectValue(_)
\* some object key, at any depth, holds an empty plain object
HasEmptyObjectValue(tree) ==
    \/ /\ tree.t = "obj"
       /\ \E k \in DOMAIN tree.f :
             tree.f[k] = Obj(<<>>) \/ HasEmptyObjectValue(tree.f[k])
    \/ /\ tree.t = "arr"
       /\ \E i \in 1..Len(tree.e) : HasEmptyObjectValue(tree.e[i])

Obj1(k, v) == Obj([x \in {k} |-> v])
Obj2(v, w) == Obj([x \in {"a", "b"} |-> IF x = "a" THEN v ELSE w])

SetTree == Deref(heap, set)

----------------------------------------------------------------------------
(* Statements about the decomposer (SpecDecompose).                        *)

\* C1: no key of unset resolves to a value in set, followed through set's
\* object keys and array indices.
C1_SetUnsetDisjoint ==
    pc = "decomposed" => \A p \in unset : Resolve(SetTree, p) = NONE

\* C2: unset has an entry for path p if and only if the value at p in the
\* input is the sentinel, p ranging over object keys and array positions at
\* any depth; no segment of an entry is the wildcard token.
C2_UnsetIffSentinel ==
    pc = "decomposed" =>
        /\ unset = {p \in PathsOf(before) : Resolve(before, p) = UNDEF}
        /\ \A p \in unset : \A i \in 1..Len(p) : p[i] # "<idx>"

C4_NoEmptyObjectInSet ==
    pc = "decomposed" => ~HasEmptyObjectValue(SetTree)

\* C5: decomposing the set of a decomposition yields an empty unset and a set
\* structurally equal to the first set.
C5_Idempotent ==
    [][pc = "decomposed" /\ pc' = "redecomposed" =>
          /\ unset2' = {}
          /\ Deref(heap', set2') = Deref(heap, set)]_vars

\* a second decomposition after a first one that recorded an unset entry and
\* pruned a chain of objects
C5_Witness ==
    /\ pc = "redecomposed"
    /\ before = Obj2(Obj1("a", Obj1("a", UNDEF)), Num(1))
    /\ Deref(heap, set2) = Obj1("b", Num(1))

\* C6: the call leaves its argument structurally as it was and set shares
\* no object or array with it; mutating set afterwards, or calling again on
\* the same document, does not change the document, and the second call
\* returns what the first returned, in cells of its own.
C6_InputUntouched ==
    pc \in {"decomposed", "redecomposed", "again", "mutated"} =>
        /\ Deref(heap, data) = before
        /\ Reach(heap, set) \cap Reach(heap, data) = {}
        /\ pc = "again" =>
              /\ Deref(heap, set2) = Deref(heap, set)
              /\ unset2 = unset
              /\ Reach(heap, set2) \cap (Reach(heap, set) \cup Reach(heap, data)) = {}

\* the returned set of a document with a sentinel was mutated by the caller
C6_Witness ==
    /\ pc = "mutated"
    /\ HasSentinel(before)
    /\ SetTree # Strip(before)

----------------------------------------------------------------------------
(* Statements about deleteField (SpecDelete).                              *)

RECURSIVE ReplaceAt(_, _, _)
\* tree with the value at path p, which exists, replaced by new
ReplaceAt(tree, p, new) ==
    IF p = <<>> THEN new
    ELSE IF tree.t = "obj"
    THEN [tree EXCEPT !.f[Head(p)] = ReplaceAt(@, Tail(p), new)]
    ELSE LET i == CHOOSE j \in 1..Len(tree.e) : IndexKey(j) = Head(p)
         IN  [tree EXCEPT !.e[i] = ReplaceAt(@, Tail(p), new)]

RECURSIVE HeapResolve(_, _, _)
\* the value (a reference, for a container) found at path p from value v
HeapResolve(h, v, p) ==
    IF p = <<>> THEN v ELSE HeapResolve(h, GetProp(h, v, Head(p)), Tail(p))

Prefix(p, n) == SubSeq(p, 1, n)
Last(p) == p[Len(p)]
AfterTree == Deref(heap, data)

\* deleteField applied to the tree e alone: the tree that is left
DeletedAlone(e, rest) ==
    LET r == Alloc(<<>>, e)
    IN  Deref(deleteField(r.h, r.v, rest).h, r.v)

\* C7: deleteField returns normally for every data tree and every path.
C7_NeverThrows ==
    pc = "deleted" => ~threw

\* some intermediate segment, reached by plain look-ups from the root, names
\* a key that its node (not null) does not have
AbsentIntermediate(tree, p) ==
    \E i \in 1..(Len(p) - 1) :
        LET node == Resolve(tree, Prefix(p, i - 1))
        IN  /\ node # NONE
            /\ node.t # "null"
            /\ ~(p[i] = DEFAULT_ARRAY_PATH_KEY /\ node.t = "arr")
            /\ Child(node, p[i]) = NONE

\* the path leads through objects only, down to the object owning its last
\* segment
ThroughObjects(tree, p) ==
    \A i \in 0..(Len(p) - 1) :
        LET node == Resolve(tree, Prefix(p, i))
        IN  node # NONE /\ node.t = "obj"

\* C8: an intermediate segment naming an absent key leaves the whole tree
\* unchanged; a path resolving through object keys to a terminal key of an
\* object removes exactly that key, every other key, sibling and ancestor
\* being unchanged.
C8_OnlyAddressedKeyChanges ==
    pc = "deleted" =>
        /\ AbsentIntermediate(before, path) => AfterTree = before /\ ~threw
        /\ ThroughObjects(before, path) =>
              LET owner == Resolve(before, Prefix(path, Len(path) - 1))
              IN  /\ AfterTree =
                        ReplaceAt(before, Prefix(path, Len(path) - 1),
                                  Obj([k \in DOMAIN owner.f \ {Last(path)} |-> owner.f[k]]))
                  /\ ~threw

\* "a.a" deleted from { a: { a: 1, b: 1 } } leaves { a: { b: 1 } }
C8_Witness ==
    /\ pc = "deleted"
    /\ before = Obj1("a", Obj2(Num(1), Num(1)))
    /\ path = <<"a", "a">>
    /\ AfterTree = Obj1("a", Obj1("b", Num(1)))

\* C9: for a path P.<idx>.R where P resolves to an array A the result is A
\* with deleteField(R) applied to each element independently, the number and
\* order of the elements unchanged and nothing outside A touched; a wildcard
\* segment at a node that is not an array removes nothing.
C9_WildcardFanOut ==
    pc = "deleted" =>
        \A i \in 1..Len(path) :
            LET node == Resolve(before, Prefix(path, i - 1))
            IN  (path[i] = DEFAULT_ARRAY_PATH_KEY /\ node # NONE) =>
                    IF node.t = "arr" /\ i < Len(path)
                    THEN AfterTree =
                            ReplaceAt(before, Prefix(path, i - 1),
                                Arr([j \in 1..Len(node.e) |->
                                        DeletedAlone(node.e[j],
                                                     SubSeq(path, i + 1, Len(path)))]))
                    ELSE node.t # "arr" => AfterTree = before

\* C10: a terminal wildcard whose owner is an array empties that array in
\* place; the key holding the array remains.
C10_TerminalWildcardClears ==
    pc = "deleted" =>
        LET P     == Prefix(path, Len(path) - 1)
            owner == Resolve(before, P)
            start == Alloc(<<>>, before)
        IN  (Last(path) = DEFAULT_ARRAY_PATH_KEY /\ owner # NONE /\ owner.t = "arr") =>
                /\ ~threw
                /\ AfterTree = ReplaceAt(before, P, Arr(<<>>))
                /\ HeapResolve(heap, data, P) = HeapResolve(start.h, start.v, P)

\* "a.<idx>" deleted from { a: [1, null] } leaves { a: [] }
C10_Witness ==
    /\ pc = "deleted"
    /\ before = Obj1("a", Arr(<<Num(1), NULL>>))
    /\ path = <<"a", DEFAULT_ARRAY_PATH_KEY>>
    /\ AfterTree = Obj1("a", Arr(<<>>))

\* the owner of the last segment of path is an array of one or more objects
OwnerIsArrayOfObjects ==
    LET owner == Resolve(before, Prefix(path, Len(path) - 1))
    IN  /\ owner # NONE
        /\ owner.t = "arr"
        /\ Len(owner.e) > 0
        /\ \A j \in 1..Len(owner.e) : owner.e[j].t = "obj"

\* C11 as stated: a terminal wildcard on an array of objects leaves an array
\* of the same length whose elements are all empty objects.
C11_TerminalWildcardEmptiesElements ==
    (pc = "deleted" /\ Last(path) = DEFAULT_ARRAY_PATH_KEY /\ OwnerIsArrayOfObjects) =>
        LET P     == Prefix(path, Len(path) - 1)
            owner == Resolve(before, P)
        IN  AfterTree = ReplaceAt(before, P, Arr([j \in 1..Len(owner.e) |-> Obj(<<>>)]))

\* C11 amended: a terminal wildcard on an array of objects leaves no element
\* at all, neither the objects nor emptied copies of them; the array is the
\* only thing that changes.
C11_TerminalWildcardDropsElements ==
    (pc = "deleted" /\ Last(path) = DEFAULT_ARRAY_PATH_KEY /\ OwnerIsArrayOfObjects) =>
        LET P == Prefix(path, Len(path) - 1)
        IN  /\ Resolve(AfterTree, P).t = "arr"
            /\ Len(Resolve(AfterTree, P).e) = 0
            /\ ReplaceAt(AfterTree, P, NULL) = ReplaceAt(before, P, NULL)

\* "a.<idx>" deleted from { a: [{ a: 1 }, {}] } leaves { a: [] }
C11_Witness ==
    /\ pc = "deleted"
    /\ before = Obj1("a", Arr(<<Obj1("a", Num(1)), Obj(<<>>)>>))
    /\ path = <<"a", DEFAULT_ARRAY_PATH_KEY>>
    /\ AfterTree = Obj1("a", Arr(<<>>))

----------------------------------------------------------------------------
(* deleteField with a terminal segment of any spelling                     *)
(* (SpecDeleteTerminal): the path is a prefix of plain look-ups followed   *)
(* by a last segment that may be empty, negative or fractional. A segment  *)
(* holds no ".", so a fraction is spelled with an exponent.                *)

\* the decimal literals of the indices 0..MaxIndexLiteral
IndexLiterals == {ToString(n) : n \in 0..MaxIndexLiteral}

TerminalSegs == IndexLiterals \cup {"", "-1", "5e-1", "a"}

RECURSIVE LookupsUpTo(_)
\* the sequences of at most n plain look-ups
LookupsUpTo(n) ==
    IF n = 0 THEN {<<>>}
    ELSE {<<>>} \cup {Append(p, seg) : p \in LookupsUpTo(n - 1), seg \in {"a", "0"}}

\* deleteField(item, field), field ending in any terminal segment
DeleteTerminal ==
    /\ pc = "start"
    /\ \E p \in LookupsUpTo(MaxPathLen - 1), last \in TerminalSegs :
          LET r == deleteField(heap, data, Append(p, last))
          IN  heap' = r.h /\ threw' = ~r.ok /\ path' = Append(p, last)
    /\ pc' = "deleted"
    /\ UNCHANGED <<data, before, set, unset, set2, unset2>>
    /\ UNCHANGED svars
    /\ UNCHANGED mvars

NextDeleteTerminal == DeleteTerminal

SpecDeleteTerminal == InitDelete /\ [][NextDeleteTerminal]_vars

\* arr without its element at index n (counted from 0)
WithoutIndex(arr, n) ==
    Arr([j \in 1..(Len(arr.e) - 1) |-> IF j <= n THEN arr.e[j] ELSE arr.e[j + 1]])

\* C12: a terminal segment other than the wildcard removes an element of an
\* owner array only if it is a non-negative integer literal within range,
\* and then exactly that element, the later ones shifting down; a negative,
\* out-of-range, empty or non-integer terminal segment leaves the array as
\* it was.
C12_TerminalIndexSplices ==
    pc = "deleted" =>
        LET P     == Prefix(path, Len(path) - 1)
            owner == Resolve(before, P)
            seg   == Last(path)
        IN  (owner # NONE /\ owner.t = "arr" /\ seg # DEFAULT_ARRAY_PATH_KEY) =>
                IF seg \in IndexLiterals /\ NumberOf(seg).int < Len(owner.e)
                THEN AfterTree = ReplaceAt(before, P, WithoutIndex(owner, NumberOf(seg).int))
                ELSE AfterTree = before

----------------------------------------------------------------------------
(* Zod schemas.  A schema is an object of the heap: a ZodObject refers to  *)
(* its shape (a plain object from field name to schema), a ZodArray to its *)
(* element, a wrapper to its inner type.                                   *)

ZObject(shape) == [t |-> "ZodObject", shape |-> shape]
ZArray(element) == [t |-> "ZodArray", element |-> element]
ZWrap(w, innerType) == [t |-> w, innerType |-> innerType]
ZLeaf(kind) == [t |-> kind]

Wrappers == {"ZodOptional", "ZodNullable", "ZodDefault"}

\* Object.keys(shape), for (const key in shape): the identifier field, when
\* a shape has one, is declared first
ShapeKeys(f) == SelectSeq(<<"_id">> \o KeyOrder, LAMBDA k : k \in DOMAIN f)

RECURSIVE SAlloc(_, _), SAllocSeq(_, _)
\* builds the schema tree in heap h; yields the new heap and the reference
SAlloc(h, tree) ==
    IF tree.t = "ZodObject" THEN
        LET ks == ShapeKeys(tree.shape)
            r  == SAllocSeq(h, [i \in 1..Len(ks) |-> tree.shape[ks[i]]])
            f  == [k \in DOMAIN tree.shape |->
                      r.vs[CHOOSE i \in 1..Len(ks) : ks[i] = k]]
            h1 == Append(r.h, Obj(f))
        IN  [h |-> Append(h1, ZObject(Ref(Len(h1)))), v |-> Ref(Len(h1) + 1)]
    ELSE IF tree.t = "ZodArray" THEN
        LET r == SAlloc(h, tree.element)
        IN  [h |-> Append(r.h, ZArray(r.v)), v |-> Ref(Len(r.h) + 1)]
    ELSE IF tree.t \in Wrappers THEN
        LET r == SAlloc(h, tree.innerType)
        IN  [h |-> Append(r.h, ZWrap(tree.t, r.v)), v |-> Ref(Len(r.h) + 1)]
    ELSE [h |-> Append(h, tree), v |-> Ref(Len(h) + 1)]
SAllocSeq(h, trees) ==
    IF trees = <<>> THEN [h |-> h, vs |-> <<>>]
    ELSE LET r1 == SAlloc(h, Head(trees))
             r2 == SAllocSeq(r1.h, Tail(trees))
         IN  [h |-> r2.h, vs |-> <<r1.v>> \o r2.vs]

\* schema.shape of a ZodObject: the fields of its shape object
ShapeOf(h, v) == h[h[v.a].shape.a].f

RECURSIVE SDeref(_, _)
\* the schema tree that reference v denotes in heap h
SDeref(h, v) ==
    LET c == h[v.a] IN
    IF c.t = "ZodObject"
    THEN ZObject([k \in DOMAIN ShapeOf(h, v) |-> SDeref(h, ShapeOf(h, v)[k])])
    ELSE IF c.t = "ZodArray" THEN ZArray(SDeref(h, c.element))
    ELSE IF c.t \in Wrappers THEN ZWrap(c.t, SDeref(h, c.innerType))
    ELSE c

\* schema instanceof ZodObject, schema instanceof ZodArray
IsZodObject(h, v) == h[v.a].t = "ZodObject"
IsZodArray(h, v) == h[v.a].t = "ZodArray"

\* the ZodObject with field set K whose schemas, in key order, are s
ZObjOf(K, s) ==
    LET ks == SelectSeq(KeyOrder, LAMBDA k : k \in K)
    IN  ZObject([k \in K |-> s[CHOOSE i \in 1..Len(ks) : ks[i] = k]])

\* the schemas of exactly n nodes, n > 1, built from the smaller ones, with
\* the wrappers ws
SchemasOfSize(table, n, ws) ==
    {ZWrap(w, x) : w \in ws, x \in table[n - 1]}
    \cup {ZArray(x) : x \in table[n - 1]}
    \cup UNION {{ZObjOf(K, s) : s \in SeqsOfSize(table, Cardinality(K), n - 1)} :
                    K \in (SUBSET Keys) \ {{}}}

RECURSIVE SchemaTable(_, _, _)
\* table extended up to the schemas of maxSize nodes
SchemaTable(table, maxSize, ws) ==
    IF Len(table) >= maxSize THEN table
    ELSE CHOOSE full \in {SchemaTable(next, maxSize, ws) :
                               next \in {Append(table, SchemasOfSize(table, Len(table) + 1, ws))}} :
             TRUE

\* S is a model schema of at most maxSize nodes built from table: the schema
\* of a model is a ZodObject
IsSchema(S, table, maxSize) ==
    \E n \in 1..maxSize : \E K \in SUBSET Keys :
        \E s \in SeqsOfSize(table, Cardinality(K), n - 1) : S = ZObjOf(K, s)

----------------------------------------------------------------------------
(* deleteField.ts: deleteZodField                                          *)

RECURSIVE deleteZodField(_, _, _), deleteZodWalk(_, _, _, _), deleteZodLast(_, _, _)
\* deleteZodField(schema, path), keys = path.split("."): the heap after it
deleteZodField(h, s, keys) == deleteZodWalk(h, s, keys, 1)
\* the for loop at iteration i, then the terminal segment
deleteZodWalk(h, current, keys, i) ==
    IF i < Len(keys) THEN
        IF keys[i] = DEFAULT_ARRAY_PATH_KEY /\ IsZodArray(h, current)
        THEN deleteZodField(h, h[current.a].element, SubSeq(keys, i + 1, Len(keys)))
        ELSE IF IsZodObject(h, current) THEN
            IF keys[i] \in DOMAIN ShapeOf(h, current)
            THEN deleteZodWalk(h, ShapeOf(h, current)[keys[i]], keys, i + 1)
            ELSE h
        ELSE deleteZodWalk(h, current, keys, i + 1)
    ELSE deleteZodLast(h, current, keys[Len(keys)])
\* the statements after the loop
deleteZodLast(h, current, lastKey) ==
    IF IsZodObject(h, current) THEN
        \* delete shape[lastKey]
        [h EXCEPT ![h[current.a].shape.a].f = [k \in DOMAIN @ \ {lastKey} |-> @[k]]]
    ELSE IF IsZodArray(h, current)
    THEN deleteZodField(h, h[current.a].element, <<lastKey>>)
    ELSE h

----------------------------------------------------------------------------
(* The two deleters side by side (SpecMirror): a model schema, a document  *)
(* that conforms to it, and one path deleted from both.                    *)

\* a schema of the side-by-side run has at most MaxMirrorNodes nodes
MaxMirrorNodes == 4

MirrorTable ==
    SchemaTable(<<{ZLeaf("ZodNumber"), ZObject(<<>>)}>>, MaxMirrorNodes - 1, {"ZodOptional"})

RECURSIVE Sample(_, _)
\* a document that schema tree S accepts: every field present, every array
\* of n elements
Sample(S, n) ==
    IF S.t = "ZodObject" THEN Obj([k \in DOMAIN S.shape |-> Sample(S.shape[k], n)])
    ELSE IF S.t = "ZodArray" THEN Arr([i \in 1..n |-> Sample(S.element, n)])
    ELSE IF S.t \in Wrappers THEN Sample(S.innerType, n)
    ELSE Num(1)

InitMirror ==
    /\ IsSchema(original, MirrorTable, MaxMirrorNodes)
    /\ \E n \in 1..2 : before = Sample(original, n)
    /\ LET rs == SAlloc(<<>>, original)
           rd == Alloc(rs.h, before)
       IN  heap = rd.h /\ schema = rs.v /\ data = rd.v
    /\ path = <<>> /\ paths = <<>> /\ result = NONE /\ err = <<>>
    /\ set = NONE /\ unset = {} /\ set2 = NONE /\ unset2 = {}
    /\ threw = FALSE
    /\ pc = "start"
    /\ NoModel

\* deleteZodField(schema, path)
DeleteZodField ==
    /\ pc = "start"
    /\ \E keys \in Paths :
          heap' = deleteZodField(heap, schema, keys) /\ path' = keys
    /\ pc' = "schemaDeleted"
    /\ UNCHANGED <<data, before, set, unset, set2, unset2, threw>>
    /\ UNCHANGED <<schema, original, result, paths, err>>
    /\ UNCHANGED mvars

\* deleteField(document, path) with the same path
DeleteSameField ==
    /\ pc = "schemaDeleted"
    /\ LET r == deleteField(heap, data, path)
       IN  heap' = r.h /\ threw' = ~r.ok
    /\ pc' = "bothDeleted"
    /\ UNCHANGED <<data, before, path, set, unset, set2, unset2>>
    /\ UNCHANGED svars
    /\ UNCHANGED mvars

NextMirror == DeleteZodField \/ DeleteSameField

SpecMirror == InitMirror /\ [][NextMirror]_vars

RECURSIVE SchemaFields(_), DataFields(_), HasWrapper(_)
\* the paths of the fields a schema tree declares; an array contributes the
\* wildcard, a wrapper nothing
SchemaFields(S) ==
    IF S.t = "ZodObject" THEN
        UNION {{<<k>>} \cup {<<k>> \o q : q \in SchemaFields(S.shape[k])} : k \in DOMAIN S.shape}
    ELSE IF S.t = "ZodArray"
    THEN {<<DEFAULT_ARRAY_PATH_KEY>> \o q : q \in SchemaFields(S.element)}
    ELSE IF S.t \in Wrappers THEN SchemaFields(S.innerType)
    ELSE {}
\* the paths of the keys a document holds, the wildcard standing for every
\* array index
DataFields(D) ==
    IF D.t = "obj" THEN
        UNION {{<<k>>} \cup {<<k>> \o q : q \in DataFields(D.f[k])} : k \in DOMAIN D.f}
    ELSE IF D.t = "arr"
    THEN UNION {{<<DEFAULT_ARRAY_PATH_KEY>> \o q : q \in DataFields(D.e[i])} : i \in 1..Len(D.e)}
    ELSE {}
HasWrapper(S) ==
    \/ S.t \in Wrappers
    \/ S.t = "ZodObject" /\ \E k \in DOMAIN S.shape : HasWrapper(S.shape[k])
    \/ S.t = "ZodArray" /\ HasWrapper(S.element)

\* C13: for a schema of objects, arrays and leaves, a conforming document
\* with non-empty arrays and any path over names, an index and the wildcard,
\* the fields deleteZodField removes from the schema are the fields
\* deleteField removes from the document.
C13_DeletersMirror ==
    (pc = "bothDeleted" /\ ~HasWrapper(original)) =>
        SchemaFields(original) \ SchemaFields(SDeref(heap, schema))
            = DataFields(before) \ DataFields(Deref(heap, data))

----------------------------------------------------------------------------
(* generateSchema.ts: createSchemaFromPaths                                *)

RECURSIVE deleteZodFields(_, _, _)
\* for (const path of paths) deleteZodField(newSchema, path)
deleteZodFields(h, s, ps) ==
    IF ps = <<>> THEN h
    ELSE deleteZodFields(deleteZodField(h, s, Head(ps)), s, Tail(ps))

\* a call with no path that returns an object schema without fields
createSchemaFromPaths_emptyForNone(h, s, ps) ==
    LET h1 == Append(h, Obj(IF ps = <<>> THEN <<>> ELSE ShapeOf(h, s)))
        h2 == Append(h1, ZObject(Ref(Len(h1))))
    IN  [h |-> deleteZodFields(h2, Ref(Len(h2)), ps), v |-> Ref(Len(h2))]
\* createSchemaFromPaths(schema, paths): the heap after the call and the
\* schema returned
createSchemaFromPaths(h, s, ps) ==
    IF ps = <<>> THEN [h |-> h, v |-> s]
    ELSE \* z.object(Object.fromEntries(... [key, schema.shape[key]]))
         LET h1 == Append(h, Obj(ShapeOf(h, s)))
             h2 == Append(h1, ZObject(Ref(Len(h1))))
         IN  [h |-> deleteZodFields(h2, Ref(Len(h2)), ps), v |-> Ref(Len(h2))]

RECURSIVE NarrowPathsUpTo(_)
\* the paths of at most n segments over a field name and the wildcard
NarrowPathsUpTo(n) ==
    IF n = 0 THEN {}
    ELSE {<<seg>> : seg \in {"a", DEFAULT_ARRAY_PATH_KEY}}
         \cup {Append(p, seg) : p \in NarrowPathsUpTo(n - 1),
                                seg \in {"a", DEFAULT_ARRAY_PATH_KEY}}

NarrowPaths == NarrowPathsUpTo(MaxPathLen)

\* partialFields: no path, one path, or two (possibly the same twice)
PathLists ==
    {<<>>} \cup {<<p>> : p \in NarrowPaths} \cup {<<p, q>> : p \in NarrowPaths, q \in NarrowPaths}

InitFromPaths ==
    /\ IsSchema(original, MirrorTable, MaxMirrorNodes)
    /\ LET rs == SAlloc(<<>>, original)
       IN  heap = rs.h /\ schema = rs.v
    /\ data = NONE /\ before = NONE
    /\ path = <<>> /\ paths = <<>> /\ result = NONE /\ err = <<>>
    /\ set = NONE /\ unset = {} /\ set2 = NONE /\ unset2 = {}
    /\ threw = FALSE
    /\ pc = "start"
    /\ NoModel

\* Model.parse(data, { partialFields }): createSchemaFromPaths(this.schema, partialFields)
CreateSchemaFromPaths ==
    /\ pc = "start"
    /\ \E ps \in PathLists :
          LET r == createSchemaFromPaths(heap, schema, ps)
          IN  heap' = r.h /\ result' = r.v /\ paths' = ps
    /\ pc' = "narrowed"
    /\ UNCHANGED <<data, before, path, set, unset, set2, unset2, threw>>
    /\ UNCHANGED <<schema, original, err>>
    /\ UNCHANGED mvars

\* a later parse of the same model with the same partialFields
CreateSchemaFromPathsAgain ==
    /\ pc = "narrowed"
    /\ LET r == createSchemaFromPaths(heap, schema, paths)
       IN  heap' = r.h /\ result' = r.v
    /\ pc' = "narrowedAgain"
    /\ UNCHANGED <<data, before, path, set, unset, set2, unset2, threw>>
    /\ UNCHANGED <<schema, original, paths, err>>
    /\ UNCHANGED mvars

NextFromPaths == CreateSchemaFromPaths \/ CreateSchemaFromPathsAgain

SpecFromPaths == InitFromPaths /\ [][NextFromPaths]_vars

\* C14: whatever paths createSchemaFromPaths is called with, once or again,
\* the model's schema is structurally what it was when the model was defined.
C14_OriginalSchemaUntouched ==
    pc \in {"narrowed", "narrowedAgain"} => SDeref(heap, schema) = original

\* C17: createSchemaFromPaths(S, []) returns a schema structurally identical
\* to S, raises nothing and leaves S as it was.
C17_NoPathsIsIdentity ==
    (pc \in {"narrowed", "narrowedAgain"} /\ paths = <<>>) =>
        /\ SDeref(heap, result) = original
        /\ SDeref(heap, schema) = original
        /\ ~threw

\* createSchemaFromPaths(S, []) for S = { a: [{ a: number }] }
C17_Witness ==
    /\ pc = "narrowed"
    /\ paths = <<>>
    /\ original = ZObjOf({"a"}, <<ZArray(ZObjOf({"a"}, <<ZLeaf("ZodNumber")>>))>>)
    /\ SDeref(heap, result) = original

----------------------------------------------------------------------------
(* generateSchema.ts: createSchemaFromData.  Every function yields the     *)
(* heap after it, the schema it returns and whether it returned normally.  *)

\* data.hasOwnProperty(key) for a value that is neither null nor undefined
HasOwn(h, d, key) ==
    /\ d.t = "ref"
    /\ \/ h[d.a].t = "obj" /\ key \in DOMAIN h[d.a].f
       \/ h[d.a].t = "arr" /\ \E i \in 1..Len(h[d.a].e) : IndexKey(i) = key

\* z.object(shape), z.array(element), inner.optional() and the like: a new
\* schema object
NewZObject(h, f) ==
    LET h1 == Append(h, Obj(f))
    IN  [h |-> Append(h1, ZObject(Ref(Len(h1)))), v |-> Ref(Len(h1) + 1), ok |-> TRUE]
NewZArray(h, element) ==
    [h |-> Append(h, ZArray(element)), v |-> Ref(Len(h) + 1), ok |-> TRUE]
NewZWrap(h, w, innerType) ==
    [h |-> Append(h, ZWrap(w, innerType)), v |-> Ref(Len(h) + 1), ok |-> TRUE]

RECURSIVE processSchema(_, _, _), processShape(_, _, _, _, _),
          processFieldSchema(_, _, _), processComplexSchema(_, _, _),
          processArraySchema(_, _, _), processWrappedSchema(_, _, _)
\* processSchema(schema, data)
processSchema(h, s, d) ==
    IF IsZodObject(h, s)
    THEN processShape(h, s, d, ShapeKeys(ShapeOf(h, s)), <<>>)
    ELSE [h |-> h, v |-> s, ok |-> TRUE]
\* for (const key in originalShape), ks the keys still to visit and shape
\* the new shape so far; then z.object(shape)
processShape(h, s, d, ks, shape) ==
    IF ks = <<>> THEN NewZObject(h, shape)
    ELSE IF IsNullish(d) THEN [h |-> h, v |-> UNDEF, ok |-> FALSE]
    ELSE IF ~HasOwn(h, d, Head(ks)) THEN processShape(h, s, d, Tail(ks), shape)
    ELSE LET r == processFieldSchema(h, ShapeOf(h, s)[Head(ks)], GetProp(h, d, Head(ks)))
         IN  IF ~r.ok THEN r
             ELSE processShape(r.h, s, d, Tail(ks),
                               [k \in DOMAIN shape \cup {Head(ks)} |->
                                   IF k = Head(ks) THEN r.v ELSE shape[k]])
\* processFieldSchema(schema, data)
processFieldSchema(h, s, d) ==
    IF IsObjectLike(d) THEN processComplexSchema(h, s, d)
    ELSE [h |-> h, v |-> s, ok |-> TRUE]
\* processComplexSchema(schema, data)
processComplexSchema(h, s, d) ==
    IF IsZodObject(h, s) THEN processSchema(h, s, d)
    ELSE IF IsZodArray(h, s) THEN processArraySchema(h, s, d)
    ELSE IF h[s.a].t \in Wrappers THEN processWrappedSchema(h, s, d)
    ELSE [h |-> h, v |-> s, ok |-> TRUE]
\* processArraySchema(schema, data): z.array(processSchema(schema.element, data[0]))
processArraySchema(h, s, d) ==
    LET r == processSchema(h, h[s.a].element, GetProp(h, d, "0"))
    IN  IF ~r.ok THEN r ELSE NewZArray(r.h, r.v)
\* processOptionalSchema, processNullableSchema, processDefaultSchema:
\* processSchema(unwrapped, data) wrapped again
processWrappedSchema(h, s, d) ==
    LET r == processSchema(h, h[s.a].innerType, d)
    IN  IF ~r.ok THEN r ELSE NewZWrap(r.h, h[s.a].t, r.v)

\* createSchemaFromData(schema, data)
createSchemaFromData(h, s, d) == processSchema(h, s, d)

\* a schema narrowed by data has at most MaxFromDataNodes nodes, the data
\* at most MaxFromDataValues values
MaxFromDataNodes == 5
MaxFromDataValues == 3

FromDataSchemas ==
    SchemaTable(<<{ZLeaf("ZodNumber"), ZObject(<<>>)}>>, MaxFromDataNodes - 1, Wrappers)
FromDataDocs == TreeTable(<<DelLeaves \cup {Obj(<<>>), Arr(<<>>)}>>, MaxFromDataValues - 1)

InitFromData ==
    /\ IsSchema(original, FromDataSchemas, MaxFromDataNodes)
    /\ IsDoc(before, FromDataDocs, MaxFromDataValues)
    /\ LET rs == SAlloc(<<>>, original)
           rd == Alloc(rs.h, before)
       IN  heap = rd.h /\ schema = rs.v /\ data = rd.v
    /\ path = <<>> /\ paths = <<>> /\ result = NONE /\ err = <<>>
    /\ set = NONE /\ unset = {} /\ set2 = NONE /\ unset2 = {}
    /\ threw = FALSE
    /\ pc = "start"
    /\ NoModel

\* Model.parse(data, { isPartial: true }): createSchemaFromData(this.schema, data)
CreateSchemaFromData ==
    /\ pc = "start"
    /\ LET r == createSchemaFromData(heap, schema, data)
       IN  heap' = r.h /\ result' = (IF r.ok THEN r.v ELSE NONE) /\ threw' = ~r.ok
    /\ pc' = "fromData"
    /\ UNCHANGED <<data, before, path, set, unset, set2, unset2>>
    /\ UNCHANGED <<schema, original, paths, err>>
    /\ UNCHANGED mvars

NextFromData == CreateSchemaFromData

SpecFromData == InitFromData /\ [][NextFromData]_vars

RECURSIVE Shaped(_, _), Narrow(_, _)
\* document D has the structure of schema tree S: an object where S has a
\* ZodObject, a non-empty array where S has a ZodArray, a scalar at a leaf
Shaped(S, D) ==
    IF S.t = "ZodObject" THEN
        D.t = "obj" /\ \A k \in DOMAIN S.shape \cap DOMAIN D.f : Shaped(S.shape[k], D.f[k])
    ELSE IF S.t = "ZodArray" THEN
        D.t = "arr" /\ Len(D.e) > 0 /\ Shaped(S.element, D.e[1])
    ELSE IF S.t \in Wrappers THEN Shaped(S.innerType, D)
    ELSE D.t \in {"num", "null"}
\* S with the fields kept that D, of the structure of S, has as keys; an
\* array is looked up in its first element and every wrapper stays
Narrow(S, D) ==
    IF S.t = "ZodObject" THEN
        ZObject([k \in DOMAIN S.shape \cap DOMAIN D.f |-> Narrow(S.shape[k], D.f[k])])
    ELSE IF S.t = "ZodArray" THEN ZArray(Narrow(S.element, D.e[1]))
    ELSE IF S.t \in Wrappers THEN ZWrap(S.t, Narrow(S.innerType, D))
    ELSE S

\* C15: for data of the structure of the schema, createSchemaFromData
\* returns the schema with exactly the fields the data has as keys, at every
\* depth, through arrays (first element) and through wrappers in any
\* nesting, each wrapper applied again.
C15_NarrowedByDataKeys ==
    (pc = "fromData" /\ Shaped(original, before)) =>
        ~threw /\ SDeref(heap, result) = Narrow(original, before)

\* C16: when the data of a top-level array field is the empty array (the
\* other keys of the data holding scalars), createSchemaFromData returns
\* normally and the field keeps its element schema, whatever that is.
C16_EmptyArrayKeepsElement ==
    pc = "fromData" =>
        \A k \in DOMAIN original.shape \cap DOMAIN before.f :
            ( /\ original.shape[k].t = "ZodArray"
              /\ before.f[k] = Arr(<<>>)
              /\ \A j \in DOMAIN before.f \ {k} : before.f[j].t \in {"num", "null"} )
            => ~threw /\ SDeref(heap, result).shape[k] = original.shape[k]

----------------------------------------------------------------------------
(* validateSchema.ts.  An issue is a path (its segments, joined by "." in  *)
(* the code) and a reason: the offending type name and whether the reason  *)
(* is the one of the identifier field.                                     *)

\* Invalid Zod types that are not supported for key paths
INVALID_ZOD_TYPES == {"ZodVoid", "ZodPromise", "ZodFunction"}
\* Invalid `_id` Zod types
INVALID_ID_ZOD_TYPES == {"ZodArray", "ZodTuple", "ZodUndefined", "ZodUnknown"}

\* { path, reason: `Schema type '${typeName}' is not allowed.` }
FieldIssue(p, typeName) == [path |-> p, id |-> FALSE, typeName |-> typeName]
\* { path: "_id", reason: `The '_id' field must not be an '${typeName}' type.` }
IdIssue(typeName) == [path |-> <<"_id">>, id |-> TRUE, typeName |-> typeName]

RECURSIVE getBaseSchema_once(_, _), getBaseSchema(_, _)
\* an unwrapping that stops after one wrapper
getBaseSchema_once(h, s) ==
    IF h[s.a].t \in {"ZodOptional", "ZodNullable"} THEN h[s.a].innerType ELSE s
\* getBaseSchema(schema)
getBaseSchema(h, s) ==
    IF h[s.a].t \in {"ZodOptional", "ZodNullable"}
    THEN getBaseSchema(h, h[s.a].innerType)
    ELSE s

\* isInvalidField(schema), isInvalidIdField(schema)
isInvalidField(h, s) == h[s.a].t \in INVALID_ZOD_TYPES
isInvalidIdField(h, s) == h[s.a].t \in INVALID_ID_ZOD_TYPES

\* zod.omit({ _id: true }): a new object schema without that field
omit(h, s, key) ==
    NewZObject(h, [k \in DOMAIN ShapeOf(h, s) \ {key} |-> ShapeOf(h, s)[k]])

RECURSIVE validateWalk(_, _, _, _), validateKeys_failFast(_, _, _, _, _),
          validateKeys(_, _, _, _, _)
\* a visit of the fields that stops at the first issue
validateKeys_failFast(h, s, ks, p, e) ==
    IF ks = <<>> \/ e # <<>> THEN e
    ELSE validateKeys_failFast(h, s, Tail(ks), p,
                      validateWalk(h, ShapeOf(h, s)[Head(ks)], Append(p, Head(ks)), e))
\* for (let key of Object.keys(schema)) processSchema(schema[key], path.key)
validateKeys(h, s, ks, p, e) ==
    IF ks = <<>> THEN e
    ELSE validateKeys(h, s, Tail(ks), p,
                      validateWalk(h, ShapeOf(h, s)[Head(ks)], Append(p, Head(ks)), e))
\* processSchema(zod, path) of validateSchema: the issues e with those of
\* zod appended (every value of a shape is a Zod schema, so the test
\* !(baseSchema instanceof z.ZodType) never adds an issue)
validateWalk(h, s, p, e) ==
    IF IsZodObject(h, s) THEN validateKeys(h, s, ShapeKeys(ShapeOf(h, s)), p, e)
    ELSE IF IsZodArray(h, s)
    THEN validateWalk(h, h[s.a].element, Append(p, DEFAULT_ARRAY_PATH_KEY), e)
    ELSE LET baseSchema == getBaseSchema(h, s)
         IN  IF isInvalidField(h, baseSchema)
             THEN Append(e, FieldIssue(p, h[baseSchema.a].t))
             ELSE e

\* an identifier field that may be Optional
optionalIdIssues_none(h, zod) == <<>>
\* if (zod.shape._id instanceof z.ZodOptional) err.push(...)
optionalIdIssues(h, zod) ==
    LET shape == ShapeOf(h, zod)
    IN  IF "_id" \in DOMAIN shape /\ h[shape["_id"].a].t = "ZodOptional"
        THEN <<IdIssue("ZodOptional")>> ELSE <<>>

\* the check of the unwrapped identifier field: the issues e with its issue
\* appended
idFieldIssues(h, zod, e) ==
    LET shape   == ShapeOf(h, zod)
        hasId   == "_id" \in DOMAIN shape
        idField == IF hasId THEN getBaseSchema(h, shape["_id"]) ELSE UNDEF
    IN  IF hasId /\ (isInvalidIdField(h, idField) \/ isInvalidField(h, idField))
        THEN Append(e, IdIssue(h[idField.a].t)) ELSE e

\* processSchema(idField ? zod.omit({ _id: true }) : zod): the issues e with
\* those of the other fields appended
otherFieldIssues(h, zod, e) ==
    LET r == IF "_id" \in DOMAIN ShapeOf(h, zod)
             THEN omit(h, zod, "_id") ELSE [h |-> h, v |-> zod]
    IN  validateWalk(r.h, r.v, <<>>, e)

\* a validation that visits the other fields before the identifier field
validateSchema_idLast(h, zod) ==
    otherFieldIssues(h, zod, <<>>) \o idFieldIssues(h, zod, optionalIdIssues(h, zod))
\* validateSchema(zod, modelName): the issues collected; the call throws
\* InvalidSchemaError when there is one or more
validateSchema(h, zod) ==
    otherFieldIssues(h, zod, idFieldIssues(h, zod, optionalIdIssues(h, zod)))

----------------------------------------------------------------------------
(* validateSchema as a state machine (SpecValidate): a model is defined    *)
(* with a schema and its constructor validates it.                         *)

\* a schema to validate has at most MaxValidateNodes nodes, the identifier
\* field not counted
MaxValidateNodes == 5

ValidateLeaves == {ZLeaf("ZodNumber"), ZLeaf("ZodVoid"), ZLeaf("ZodPromise"), ZLeaf("ZodFunction")}
ValidateTable ==
    SchemaTable(<<ValidateLeaves \cup {ZObject(<<>>)}>>, MaxValidateNodes - 1, Wrappers)

\* the schemas of the identifier field
IdSchemas ==
    LET num == ZLeaf("ZodNumber")
        arr == ZArray(ZLeaf("ZodNumber"))
    IN  {num, arr, ZLeaf("ZodVoid"), ZLeaf("ZodUndefined"), ZLeaf("ZodUnknown"), ZLeaf("ZodTuple"),
         ZWrap("ZodOptional", num), ZWrap("ZodOptional", arr), ZWrap("ZodOptional", ZLeaf("ZodVoid")),
         ZWrap("ZodNullable", num), ZWrap("ZodNullable", arr),
         ZWrap("ZodOptional", ZWrap("ZodNullable", num)),
         ZWrap("ZodNullable", ZWrap("ZodOptional", arr))}

\* S with the identifier field idS
WithId(S, idS) ==
    ZObject([k \in DOMAIN S.shape \cup {"_id"} |-> IF k = "_id" THEN idS ELSE S.shape[k]])

InitValidate ==
    /\ \E n \in 1..MaxValidateNodes : \E K \in SUBSET Keys :
          \E s \in SeqsOfSize(ValidateTable, Cardinality(K), n - 1) :
             \E idS \in IdSchemas \cup {NONE} :
                original = (IF idS = NONE THEN ZObjOf(K, s) ELSE WithId(ZObjOf(K, s), idS))
    /\ LET rs == SAlloc(<<>>, original)
       IN  heap = rs.h /\ schema = rs.v
    /\ data = NONE /\ before = NONE
    /\ path = <<>> /\ paths = <<>> /\ result = NONE /\ err = <<>>
    /\ set = NONE /\ unset = {} /\ set2 = NONE /\ unset2 = {}
    /\ threw = FALSE
    /\ pc = "start"
    /\ NoModel

\* new Model(name, schema, db): validateSchema(schema, name)
ValidateSchema ==
    /\ pc = "start"
    /\ err' = validateSchema(heap, schema)
    /\ threw' = (Len(err') > 0)
    /\ pc' = "validated"
    /\ UNCHANGED <<heap, data, before, path, set, unset, set2, unset2>>
    /\ UNCHANGED <<schema, original, result, paths>>
    /\ UNCHANGED mvars

NextValidate == ValidateSchema

SpecValidate == InitValidate /\ [][NextValidate]_vars

----------------------------------------------------------------------------
(* Statements about validateSchema (SpecValidate).                         *)

\* the schema without its identifier field: the part whose leaves are
\* checked against the general-disallowed kinds
FieldsOfOriginal ==
    ZObject([k \in DOMAIN original.shape \ {"_id"} |-> original.shape[k]])

RECURSIVE Unwrapped(_, _), LeafPositions(_, _, _)
\* S without its outer wrappers of the kinds ws
Unwrapped(S, ws) == IF S.t \in ws THEN Unwrapped(S.innerType, ws) ELSE S
\* the positions <<path, schema>> below S at which the descent through
\* objects and arrays ends, wrappers of the kinds ws around an object or an
\* array being looked through; the path has a field name per object level
\* and a wildcard per array level
LeafPositions(S, prefix, ws) ==
    LET U == Unwrapped(S, ws) IN
    IF U.t = "ZodObject" THEN
        UNION {LeafPositions(U.shape[k], Append(prefix, k), ws) : k \in DOMAIN U.shape}
    ELSE IF U.t = "ZodArray"
    THEN LeafPositions(U.element, Append(prefix, DEFAULT_ARRAY_PATH_KEY), ws)
    ELSE {<<prefix, S>>}

\* the offending leaves <<path, kind>>: a general-disallowed kind, bare or
\* inside wrappers of the kinds leafWs, containers looked through as above
Offending(leafWs, nodeWs) ==
    {<<pos[1], Unwrapped(pos[2], leafWs).t>> :
        pos \in {q \in LeafPositions(FieldsOfOriginal, <<>>, nodeWs) :
                    Unwrapped(q[2], leafWs).t \in {"ZodVoid", "ZodFunction", "ZodPromise"}}}

\* the issues of err that are not about the identifier field
FieldIssues == SelectSeq(err, LAMBDA e : ~e.id)

\* C18: validateSchema throws exactly when it found an issue, and the issues
\* thrown cover every offending leaf of the tree, one issue per leaf, not
\* only the first; a schema without offending leaf and without identifier
\* field is accepted.
C18_AllIssuesReported ==
    pc = "validated" =>
        LET bad == Offending({"ZodOptional", "ZodNullable"}, {})
        IN  /\ threw <=> Len(err) > 0
            /\ {FieldIssues[i].path : i \in 1..Len(FieldIssues)} = {b[1] : b \in bad}
            /\ Len(FieldIssues) = Cardinality(bad)
            /\ (bad = {} /\ "_id" \notin DOMAIN original.shape) => ~threw /\ err = <<>>

\* { a: void, b: { a: promise } } is rejected with two issues
C18_Witness ==
    /\ pc = "validated"
    /\ original = ZObjOf({"a", "b"}, <<ZLeaf("ZodVoid"), ZObjOf({"a"}, <<ZLeaf("ZodPromise")>>)>>)
    /\ err = <<FieldIssue(<<"a">>, "ZodVoid"), FieldIssue(<<"b", "a">>, "ZodPromise")>>
    /\ threw

C20_WrappersTransparent ==
    pc = "validated" =>
        \A b \in Offending(Wrappers, Wrappers) :
            \E i \in 1..Len(err) : err[i] = FieldIssue(b[1], b[2])

\* the identifier field of the schema, when it has one
HasId == "_id" \in DOMAIN original.shape
IdSchema == original.shape["_id"]
\* the issues of err about the identifier field
IdIssues == SelectSeq(err, LAMBDA e : e.id)

C22_IdWrappersNeutral ==
    (pc = "validated" /\ HasId) =>
        LET base == Unwrapped(IdSchema, {"ZodOptional", "ZodNullable"})
        IN  /\ base.t \in INVALID_ID_ZOD_TYPES => IdIssues = <<IdIssue(base.t)>>
            /\ base.t \notin INVALID_ID_ZOD_TYPES \cup INVALID_ZOD_TYPES => IdIssues = <<>>

RECURSIVE IssuesInOrder(_, _)
\* the issues of the offending leaves below S in depth-first order of
\* declaration, as a sequence
IssuesInOrder(S, prefix) ==
    IF S.t = "ZodObject" THEN
        LET ks == ShapeKeys(S.shape)
        IN  Flatten([i \in 1..Len(ks) |-> IssuesInOrder(S.shape[ks[i]], Append(prefix, ks[i]))])
    ELSE IF S.t = "ZodArray"
    THEN IssuesInOrder(S.element, Append(prefix, DEFAULT_ARRAY_PATH_KEY))
    ELSE LET base == Unwrapped(S, {"ZodOptional", "ZodNullable"})
         IN  IF base.t \in INVALID_ZOD_TYPES THEN <<FieldIssue(prefix, base.t)>> ELSE <<>>

\* C23: the issues about the identifier field come first, the issues of the
\* other fields follow in depth-first order of declaration, and the general
\* descent reports nothing at "_id".
C23_IssuesOrdered ==
    pc = "validated" =>
        /\ err = IdIssues \o FieldIssues
        /\ FieldIssues = IssuesInOrder(FieldsOfOriginal, <<>>)
        /\ \A i \in 1..Len(FieldIssues) : FieldIssues[i].path # <<"_id">>

\* { _id: [number], a: void, b: { a: promise } }: the identifier first
C23_Witness ==
    /\ pc = "validated"
    /\ original = WithId(ZObjOf({"a", "b"}, <<ZLeaf("ZodVoid"), ZObjOf({"a"}, <<ZLeaf("ZodPromise")>>)>>),
                         ZArray(ZLeaf("ZodNumber")))
    /\ err = <<IdIssue("ZodArray"), FieldIssue(<<"a">>, "ZodVoid"),
               FieldIssue(<<"b", "a">>, "ZodPromise")>>

----------------------------------------------------------------------------
(* model.ts: Model.parse and Model.tryParse.  The parse of Zod 3: an       *)
(* object schema checks every key of its shape, a key the data lacks is    *)
(* read as undefined, and the keys of the data outside the shape are an    *)
(* issue only when the object schema itself is strict.                     *)

RECURSIVE safeParse(_, _, _, _)
\* schema.safeParseAsync(data): success for schema s and value d in heap h.
\* strict is the unknownKeys mode of s itself: schema.strict() is a copy of
\* the top-level ZodObject alone, the ZodObjects below it keep the mode they
\* were built with, which z.object(shape) sets to "strip".
safeParse(h, s, d, strict) ==
    LET c == h[s.a] IN
    IF c.t = "ZodObject" THEN
        /\ d.t = "ref" /\ h[d.a].t = "obj"
        /\ strict => DOMAIN h[d.a].f \subseteq DOMAIN ShapeOf(h, s)
        /\ \A k \in DOMAIN ShapeOf(h, s) :
               safeParse(h, ShapeOf(h, s)[k],
                         IF k \in DOMAIN h[d.a].f THEN h[d.a].f[k] ELSE UNDEF, FALSE)
    ELSE IF c.t = "ZodArray" THEN
        /\ d.t = "ref" /\ h[d.a].t = "arr"
        /\ \A i \in 1..Len(h[d.a].e) : safeParse(h, c.element, h[d.a].e[i], FALSE)
    ELSE IF c.t = "ZodOptional" THEN d = UNDEF \/ safeParse(h, c.innerType, d, FALSE)
    ELSE IF c.t = "ZodNullable" THEN d = NULL \/ safeParse(h, c.innerType, d, FALSE)
    ELSE IF c.t = "ZodDefault" THEN d = UNDEF \/ safeParse(h, c.innerType, d, FALSE)
    ELSE c.t = "ZodNumber" /\ d.t = "num"

\* option: { isPartial } or { partialFields } or nothing
NoOption == [isPartial |-> FALSE, partialFields |-> <<>>]
IsPartial == [isPartial |-> TRUE, partialFields |-> <<>>]
PartialFields(ps) == [isPartial |-> FALSE, partialFields |-> ps]

\* const schema = isPartial ? createSchemaFromData(this.schema, data)
\*     : partialFields && partialFields.length > 0
\*     ? createSchemaFromPaths(this.schema, partialFields) : this.schema
schemaFor(h, s, d, opt) ==
    IF opt.isPartial THEN createSchemaFromData(h, s, d)
    ELSE LET r == createSchemaFromPaths(h, s, opt.partialFields)
         IN  [h |-> r.h, v |-> r.v, ok |-> TRUE]

\* Model.parse(data, option): the heap after it and how it ended; the schema
\* validated is schema.strict()
parse(h, s, d, opt) ==
    LET r == schemaFor(h, s, d, opt) IN
    IF ~r.ok THEN [h |-> r.h, out |-> "TypeError"]
    ELSE IF ~safeParse(r.h, r.v, d, TRUE) THEN [h |-> r.h, out |-> "ValidateError"]
    ELSE [h |-> r.h, out |-> "ok"]

\* Model.tryParse(data, option): the heap after it and what the promise held;
\* the schema validated is schema itself, in the mode it was built with
tryParse(h, s, d, opt) ==
    LET r == schemaFor(h, s, d, opt) IN
    IF ~r.ok THEN [h |-> r.h, out |-> "TypeError"]
    ELSE IF safeParse(r.h, r.v, d, FALSE) THEN [h |-> r.h, out |-> "true"]
    ELSE [h |-> r.h, out |-> "false"]

\* the schema of a parsing model has at most MaxParseNodes nodes, the data
\* handed to it at most MaxParseValues values
MaxParseNodes == 4
MaxParseValues == 4

ParseSchemas == SchemaTable(<<{ZLeaf("ZodNumber")}>>, MaxParseNodes - 1, {"ZodOptional"})
ParseDocs == TreeTable(<<{UNDEF, Num(1)}>>, MaxParseValues - 1)

\* no option, isPartial, or partialFields with one path of one or two segments
ParseOptions ==
    {NoOption, IsPartial} \cup {PartialFields(<<p>>) : p \in NarrowPathsUpTo(2)}

InitParse ==
    /\ IsSchema(original, ParseSchemas, MaxParseNodes)
    /\ IsDoc(before, ParseDocs, MaxParseValues)
    /\ LET rs == SAlloc(<<>>, original)
           rd == Alloc(rs.h, before)
       IN  heap = rd.h /\ schema = rs.v /\ data = rd.v
    /\ path = <<>> /\ paths = <<>> /\ result = NONE /\ err = <<>>
    /\ set = NONE /\ unset = {} /\ set2 = NONE /\ unset2 = {}
    /\ threw = FALSE
    /\ pc = "start"
    /\ option \in ParseOptions
    /\ outcome = "none" /\ outcome2 = "none"
    /\ driver = <<>> /\ ops = <<>> /\ errMap = <<>>
    /\ methods = <<>> /\ called = <<>>

\* await model.parse(data, option)
Parse ==
    /\ pc \in {"start", "tried"}
    /\ LET r == parse(heap, schema, data, option)
       IN  heap' = r.h /\ outcome' = r.out
    /\ pc' = IF pc = "start" THEN "parsed" ELSE "both"
    /\ UNCHANGED <<data, before, path, set, unset, set2, unset2, threw>>
    /\ UNCHANGED svars
    /\ UNCHANGED <<option, outcome2, driver, ops, errMap, methods, called>>

\* await model.tryParse(data, option)
TryParse ==
    /\ pc \in {"start", "parsed"}
    /\ LET r == tryParse(heap, schema, data, option)
       IN  heap' = r.h /\ outcome2' = r.out
    /\ pc' = IF pc = "start" THEN "tried" ELSE "both"
    /\ UNCHANGED <<data, before, path, set, unset, set2, unset2, threw>>
    /\ UNCHANGED svars
    /\ UNCHANGED <<option, outcome, driver, ops, errMap, methods, called>>

NextParse == Parse \/ TryParse

SpecParse == InitParse /\ [][NextParse]_vars

RECURSIVE UnknownKeys(_, _)
\* data tree D has a key its schema tree S does not declare, at the top
\* level, in a nested object or in an object that is an element of an array
UnknownKeys(S, D) ==
    IF S.t = "ZodObject" /\ D.t = "obj" THEN
        \/ \E k \in DOMAIN D.f : k \notin DOMAIN S.shape
        \/ \E k \in DOMAIN D.f \cap DOMAIN S.shape : UnknownKeys(S.shape[k], D.f[k])
    ELSE IF S.t = "ZodArray" /\ D.t = "arr" THEN
        \E i \in 1..Len(D.e) : UnknownKeys(S.element, D.e[i])
    ELSE IF S.t \in Wrappers THEN UnknownKeys(S.innerType, D)
    ELSE FALSE

\* C24: Model.parse with isPartial: true rejects a payload holding a key the
\* model's schema does not declare, at the top level, inside a nested object
\* or inside an array element: the call ends with a ValidateError.
C24_PartialRejectsUnknownKeys ==
    (pc = "parsed" /\ option = IsPartial /\ UnknownKeys(original, before)) =>
        outcome = "ValidateError"

\* C26: tryParse resolves to true exactly when parse, called with the same
\* data and option on the same model, returns without an error.
C26_TryParseAgreesWithParse ==
    pc = "both" => (outcome2 = "true" <=> outcome = "ok")

----------------------------------------------------------------------------
(* model.ts: updateOne, updateMany (_update) and findOneAndUpdate, one     *)
(* step for each statement of the method.                                  *)

UpdateMethods == {"updateOne", "updateMany", "findOneAndUpdate"}

\* the update payload without its "_id" key
UpdateDocs == TreeTable(<<{UNDEF, Num(1), Arr(<<>>)}>>, MaxParseValues - 1)

\* the heap in which the object at reference d has the own key "_id" as well
WithIdKey(h, d) ==
    [h EXCEPT ![d.a].f = [k \in DOMAIN h[d.a].f \cup {"_id"} |->
                              IF k = "_id" THEN Num(1) ELSE h[d.a].f[k]]]

InitUpdate ==
    /\ IsSchema(original, ParseSchemas, MaxParseNodes)
    /\ \E doc \in UNION {{ObjOf(K, s) : s \in SeqsOfSize(UpdateDocs, Cardinality(K), n - 1)} :
                           n \in 1..MaxParseValues, K \in SUBSET Keys} :
       \E hasId \in BOOLEAN :
           LET rs == SAlloc(<<>>, original)
               rd == Alloc(rs.h, doc)
           IN  /\ schema = rs.v /\ data = rd.v
               /\ heap = IF hasId THEN WithIdKey(rd.h, rd.v) ELSE rd.h
               /\ before = Deref(heap, data)
    /\ path = <<>> /\ paths = <<>> /\ result = NONE /\ err = <<>>
    /\ set = NONE /\ unset = {} /\ set2 = NONE /\ unset2 = {}
    /\ threw = FALSE
    /\ pc = "start"
    /\ option \in [method : UpdateMethods]
    /\ outcome = "none" /\ outcome2 = "none"
    /\ driver = <<>> /\ ops = <<>> /\ errMap = <<>>
    /\ methods = <<>> /\ called = <<>>

\* if (update.hasOwnProperty("_id")) throw new IdFieldNotAllowedError()
UpdateCheckId ==
    /\ pc = "start"
    /\ IF HasOwn(heap, data, "_id")
       THEN outcome' = "IdFieldNotAllowedError" /\ pc' = "threw"
       ELSE outcome' = outcome /\ pc' = "checked"
    /\ UNCHANGED <<heap, data, before, path, set, unset, set2, unset2, threw>>
    /\ UNCHANGED svars
    /\ UNCHANGED <<option, outcome2, driver, ops, errMap, methods, called>>

\* await this.parse(update, { isPartial: true })
UpdateValidate ==
    /\ pc = "checked"
    /\ LET r == parse(heap, schema, data, IsPartial)
       IN  /\ heap' = r.h
           /\ IF r.out = "ok"
              THEN outcome' = outcome /\ pc' = "validated"
              ELSE outcome' = r.out /\ pc' = "threw"
    /\ UNCHANGED <<data, before, path, set, unset, set2, unset2, threw>>
    /\ UNCHANGED svars
    /\ UNCHANGED <<option, outcome2, driver, ops, errMap, methods, called>>

\* const { set, unset } = processUndefinedFieldsForUpdate(update);
\* return this.collection[method](filter, { $set: set, $unset: unset }, options)
UpdateCallDriver ==
    /\ pc = "validated"
    /\ LET r == processUndefinedFieldsForUpdate(heap, data)
       IN  /\ heap' = r.h /\ set' = r.set /\ unset' = r.unset
           /\ driver' = Append(driver, [method |-> option.method,
                                        set |-> Deref(r.h, r.set), unset |-> r.unset])
    /\ outcome' = "ok"
    /\ pc' = "done"
    /\ UNCHANGED <<data, before, path, set2, unset2, threw>>
    /\ UNCHANGED svars
    /\ UNCHANGED <<option, outcome2, ops, errMap, methods, called>>

NextUpdate == UpdateCheckId \/ UpdateValidate \/ UpdateCallDriver

SpecUpdate == InitUpdate /\ [][NextUpdate]_vars

\* the driver is called at most once, after the identifier check and the
\* validation passed, with the set and unset of the decomposer; a payload
\* with an own "_id" key is refused before anything else happens
UpdateOrder ==
    /\ (driver' # driver) =>
           /\ pc = "validated" /\ driver = <<>>
           /\ ~HasOwn(heap, data, "_id")
           /\ driver' = <<[method |-> option.method,
                           set |-> Deref(heap', set'), unset |-> unset']>>
    /\ (pc = "start" /\ HasOwn(heap, data, "_id")) =>
           /\ outcome' = "IdFieldNotAllowedError" /\ pc' = "threw"
           /\ UNCHANGED <<heap, driver>>
    /\ (heap' # heap) => pc \in {"checked", "validated"}

\* C25: on updateOne, updateMany and findOneAndUpdate a payload with an own
\* "_id" key raises IdFieldNotAllowedError before any validation or driver
\* call; otherwise the payload is validated and a failing validation raises
\* ValidateError without a driver call; the driver is called exactly once,
\* after both checks passed, with $set and $unset of the decomposer.
C25_UpdateOrdering ==
    [][/\ UpdateOrder
       /\ (pc = "checked" /\ pc' # "validated") =>
              outcome' = "ValidateError" /\ UNCHANGED driver]_vars

\* the ordering alone, whatever error the validation step ends with
C25_OrderingAlone == [][UpdateOrder]_vars

----------------------------------------------------------------------------
(* model.ts: bulkWrite.  An operation is a record of its kind, the         *)
(* document validated (insertOne.document, replaceOne.replacement or the   *)
(* $set of an update) and whether the update or replacement has an own     *)
(* "_id" key.                                                              *)

\* an update that is an aggregation pipeline (an array), an update without $set
PIPELINE == [t |-> "pipeline"]
NOSET == [t |-> "noset"]

\* the documents of the operations: at most one field
BulkDocs ==
    {Obj(<<>>)} \cup {ObjOf({k}, <<v>>) : k \in Keys, v \in {UNDEF, Num(1)}}

\* the operations a caller can pass, their documents as trees
BulkOperations ==
    {[kind |-> "insertOne", doc |-> d, hasId |-> FALSE] : d \in BulkDocs}
    \cup {[kind |-> k, doc |-> d, hasId |-> i] :
              k \in {"updateOne", "updateMany"}, d \in BulkDocs \cup {NOSET}, i \in BOOLEAN}
    \cup {[kind |-> k, doc |-> PIPELINE, hasId |-> FALSE] : k \in {"updateOne", "updateMany"}}
    \cup {[kind |-> "replaceOne", doc |-> d, hasId |-> i] : d \in BulkDocs, i \in BOOLEAN}
    \cup {[kind |-> "deleteOne", doc |-> NOSET, hasId |-> FALSE]}

\* operation o with its document built in heap h
AllocOperation(h, o) ==
    IF o.doc \in {PIPELINE, NOSET} THEN [h |-> h, v |-> o]
    ELSE LET r == Alloc(h, o.doc)
         IN  [h |-> IF o.kind = "replaceOne" /\ o.hasId THEN WithIdKey(r.h, r.v) ELSE r.h,
              v |-> [o EXCEPT !.doc = r.v]]

\* the body of the try block for one operation: the heap after it and how it
\* ended
validateOperation(h, s, o) ==
    IF o.kind = "insertOne" THEN parse(h, s, o.doc, NoOption)
    ELSE IF o.kind \in {"updateOne", "updateMany"} THEN
        IF o.hasId THEN [h |-> h, out |-> "IdFieldNotAllowedError"]
        ELSE IF o.doc \in {PIPELINE, NOSET} THEN [h |-> h, out |-> "ok"]
        ELSE parse(h, s, o.doc, IsPartial)
    ELSE IF o.kind = "replaceOne" THEN
        IF HasOwn(h, o.doc, "_id") THEN [h |-> h, out |-> "IdFieldNotAllowedError"]
        ELSE parse(h, s, o.doc, PartialFields(<<<<"_id">>>>))
    ELSE [h |-> h, out |-> "ok"]

InitBulkWrite ==
    /\ IsSchema(original, ParseSchemas, MaxParseNodes - 1)
    /\ \E o1 \in BulkOperations : \E o2 \in BulkOperations \cup {NONE} :
           LET rs == SAlloc(<<>>, original)
               r1 == AllocOperation(rs.h, o1)
               r2 == IF o2 = NONE THEN r1 ELSE AllocOperation(r1.h, o2)
           IN  /\ schema = rs.v /\ heap = r2.h
               /\ ops = IF o2 = NONE THEN <<r1.v>> ELSE <<r1.v, r2.v>>
    /\ data = NONE /\ before = NONE
    /\ path = <<>> /\ paths = <<>> /\ result = NONE /\ err = <<>>
    /\ set = NONE /\ unset = {} /\ set2 = NONE /\ unset2 = {}
    /\ threw = FALSE
    /\ pc = "start"
    /\ option \in [bypassDocumentValidation : BOOLEAN, i : {1}]
    /\ outcome = "none" /\ outcome2 = "none"
    /\ driver = <<>> /\ errMap = <<>>
    /\ methods = <<>> /\ called = <<>>

\* one iteration of the for loop, i = option.i: the try block and its catch
BulkValidate ==
    /\ pc = "start"
    /\ ~option.bypassDocumentValidation
    /\ option.i <= Len(ops)
    /\ LET r == validateOperation(heap, schema, ops[option.i])
       IN  /\ heap' = r.h
           /\ IF r.out = "ok"
              THEN UNCHANGED <<errMap, outcome, pc>>
              ELSE IF r.out \in {"IdFieldNotAllowedError", "ValidateError"}
              THEN /\ errMap' = Append(errMap, [index |-> option.i - 1, error |-> r.out])
                   /\ UNCHANGED <<outcome, pc>>
              ELSE outcome' = r.out /\ pc' = "threw" /\ UNCHANGED errMap
    /\ option' = [option EXCEPT !.i = option.i + 1]
    /\ UNCHANGED <<data, before, path, set, unset, set2, unset2, threw>>
    /\ UNCHANGED svars
    /\ UNCHANGED <<outcome2, driver, ops, methods, called>>

\* return this.collection.bulkWrite(operations, options)
\*     .then((res) => ({ result: res, validateErrors: errMap }))
BulkWriteDriver ==
    /\ pc = "start"
    /\ option.bypassDocumentValidation \/ option.i > Len(ops)
    /\ driver' = Append(driver, [method |-> "bulkWrite", operations |-> ops])
    /\ outcome' = "ok"
    /\ pc' = "done"
    /\ UNCHANGED <<heap, data, before, path, set, unset, set2, unset2, threw>>
    /\ UNCHANGED svars
    /\ UNCHANGED <<option, outcome2, ops, errMap, methods, called>>

NextBulkWrite == BulkValidate \/ BulkWriteDriver

SpecBulkWrite == InitBulkWrite /\ [][NextBulkWrite]_vars

\* the 0-based indexes of the operations that fail validation or carry a
\* forbidden "_id"
FailedOperations ==
    {i - 1 : i \in {j \in 1..Len(ops) :
                       validateOperation(heap, schema, ops[j]).out # "ok"}}

\* C27: bulkWrite without bypassDocumentValidation validates every
\* operation: validateErrors has an entry with index i exactly for the
\* operations that failed, also for those after a failed one, and a failed
\* operation is not among those passed to the driver's bulkWrite; with
\* bypassDocumentValidation nothing is validated and validateErrors is empty.
C27_BulkWriteValidatesAll ==
    pc = "done" =>
        IF option.bypassDocumentValidation
        THEN errMap = <<>> /\ driver = <<[method |-> "bulkWrite", operations |-> ops]>>
        ELSE /\ {errMap[j].index : j \in 1..Len(errMap)} = FailedOperations
             /\ Len(errMap) = Cardinality(FailedOperations)
             /\ Len(driver) = 1
             /\ driver[1].operations =
                    SelectSeq(ops, LAMBDA o : validateOperation(heap, schema, o).out = "ok")

\* the entries of validateErrors alone
C27_ErrorsAlone ==
    pc = "done" =>
        IF option.bypassDocumentValidation THEN errMap = <<>>
        ELSE /\ {errMap[j].index : j \in 1..Len(errMap)} = FailedOperations
             /\ Len(errMap) = Cardinality(FailedOperations)

----------------------------------------------------------------------------
(* model.ts: the write methods that strip undefined fields: insertOne and  *)
(* insertMany (_insert), replaceOne and findOneAndReplace.                 *)

InsertMethods == {"insertOne", "insertMany"}
ReplaceMethods == {"replaceOne", "findOneAndReplace"}

\* the documents of insertMany: one or two of BulkDocs
InsertManyDocs ==
    {Arr(<<d>>) : d \in BulkDocs} \cup {Arr(<<d, e>>) : d \in BulkDocs, e \in BulkDocs}

RECURSIVE insertEach(_, _, _, _)
\* data.map(async (doc) => removeUndefinedFields(await this.parse(doc))) from
\* the element at index i on: the heap after it, the documents returned and
\* whether every parse passed
insertEach(h, s, docs, i) ==
    IF i > Len(docs) THEN [h |-> h, vs |-> <<>>, out |-> "ok"]
    ELSE LET r == parse(h, s, docs[i], NoOption) IN
         IF r.out # "ok"
         THEN [h |-> insertEach(r.h, s, docs, i + 1).h, vs |-> <<>>, out |-> r.out]
         ELSE LET c == removeUndefinedFields(r.h, docs[i])
                  n == insertEach(c.h, s, docs, i + 1)
              IN  [h |-> n.h, vs |-> <<c.v>> \o n.vs, out |-> n.out]

InitInsert ==
    /\ \E n \in 1..(MaxParseNodes - 1) : \E K \in SUBSET Keys :
           \E z \in SeqsOfSize(ParseSchemas, Cardinality(K), n - 1) :
               \E withId \in BOOLEAN :
                   original = IF withId THEN WithId(ZObjOf(K, z), ZLeaf("ZodNumber"))
                              ELSE ZObjOf(K, z)
    /\ option \in [method : InsertMethods \cup ReplaceMethods]
    /\ \E doc \in IF option.method = "insertMany" THEN InsertManyDocs
                  ELSE UNION {{ObjOf(K, s) : s \in SeqsOfSize(ParseDocs, Cardinality(K), n - 1)} :
                                 n \in 1..(MaxParseValues - 1), K \in SUBSET Keys} :
           \E hasId \in BOOLEAN :
               LET rs == SAlloc(<<>>, original)
                   rd == Alloc(rs.h, doc)
               IN  /\ schema = rs.v /\ data = rd.v
                   /\ heap = IF hasId /\ option.method # "insertMany"
                             THEN WithIdKey(rd.h, rd.v) ELSE rd.h
                   /\ before = Deref(heap, data)
    /\ path = <<>> /\ paths = <<>> /\ result = NONE /\ err = <<>>
    /\ set = NONE /\ unset = {} /\ set2 = NONE /\ unset2 = {}
    /\ threw = FALSE
    /\ pc = "start"
    /\ outcome = "none" /\ outcome2 = "none"
    /\ driver = <<>> /\ ops = <<>> /\ errMap = <<>>
    /\ methods = <<>> /\ called = <<>>

\* _insert(data, options)
Insert ==
    /\ pc = "start"
    /\ option.method \in InsertMethods
    /\ IF IsArray(heap, data)
       THEN LET r == insertEach(heap, schema, heap[data.a].e, 1) IN
            /\ heap' = r.h
            /\ outcome' = r.out
            /\ IF r.out = "ok"
               THEN driver' = Append(driver, [method |-> "insertMany",
                         docs |-> [i \in 1..Len(r.vs) |-> Deref(r.h, r.vs[i])]])
               ELSE driver' = driver
       ELSE LET r == parse(heap, schema, data, NoOption)
                c == removeUndefinedFields(r.h, data) IN
            /\ outcome' = r.out
            /\ IF r.out = "ok"
               THEN /\ heap' = c.h
                    /\ driver' = Append(driver, [method |-> "insertOne",
                                                 docs |-> <<Deref(c.h, c.v)>>])
               ELSE heap' = r.h /\ driver' = driver
    /\ pc' = IF outcome' = "ok" THEN "inserted" ELSE "threw"
    /\ UNCHANGED <<data, before, path, set, unset, set2, unset2, threw>>
    /\ UNCHANGED svars
    /\ UNCHANGED <<option, outcome2, ops, errMap, methods, called>>

\* replaceOne(filter, replacement, options), findOneAndReplace(...)
Replace ==
    /\ pc = "start"
    /\ option.method \in ReplaceMethods
    /\ IF HasOwn(heap, data, "_id")
       THEN outcome' = "IdFieldNotAllowedError" /\ UNCHANGED <<heap, driver>>
       ELSE LET r == parse(heap, schema, data,
                           IF "_id" \in DOMAIN ShapeOf(heap, schema)
                           THEN PartialFields(<<<<"_id">>>>) ELSE NoOption)
                c == removeUndefinedFields(r.h, data) IN
            /\ outcome' = r.out
            /\ IF r.out = "ok"
               THEN /\ heap' = c.h
                    /\ driver' = Append(driver, [method |-> option.method,
                                                 docs |-> <<Deref(c.h, c.v)>>])
               ELSE heap' = r.h /\ driver' = driver
    /\ pc' = IF outcome' = "ok" THEN "replaced" ELSE "threw"
    /\ UNCHANGED <<data, before, path, set, unset, set2, unset2, threw>>
    /\ UNCHANGED svars
    /\ UNCHANGED <<option, outcome2, ops, errMap, methods, called>>

NextInsert == Insert \/ Replace

SpecInsert == InitInsert /\ [][NextInsert]_vars

\* C28: insertOne, insertMany, replaceOne and findOneAndReplace leave the
\* document the caller passed structurally as it was: the undefined fields
\* are removed on a working copy only.
C28_CallerDocumentUnchanged ==
    pc \in {"inserted", "replaced", "threw"} => Deref(heap, data) = before

\* Model.parse returns its input and does not modify it
C28_ParseLeavesInput ==
    pc \in {"parsed", "tried", "both"} => Deref(heap, data) = before

----------------------------------------------------------------------------
(* model.ts: hideFields                                                    *)

RECURSIVE processItem(_, _, _), processItems(_, _, _)
\* processItem(item): for (const field of hiddenFields) deleteField(item, field)
processItem(h, item, hiddenFields) ==
    IF hiddenFields = <<>> THEN [h |-> h, ok |-> TRUE]
    ELSE LET r == deleteField(h, item, Head(hiddenFields))
         IN  IF r.ok THEN processItem(r.h, item, Tail(hiddenFields)) ELSE r
\* data.map(processItem) over the items still to visit
processItems(h, items, hiddenFields) ==
    IF items = <<>> THEN [h |-> h, ok |-> TRUE]
    ELSE LET r == processItem(h, Head(items), hiddenFields)
         IN  IF r.ok THEN processItems(r.h, Tail(items), hiddenFields) ELSE r

\* hideFields(data, hiddenFields): the heap after it, the value returned and
\* whether it returned normally.  The list that
\* hiddenFields.filter((field, index, array) => array.indexOf(field) === index)
\* returns is not assigned, the loop runs over hiddenFields itself.
hideFields(h, d, hiddenFields) ==
    IF Len(hiddenFields) = 0 THEN [h |-> h, v |-> d, ok |-> TRUE]
    ELSE IF IsArray(h, d) THEN
        LET r == processItems(h, h[d.a].e, hiddenFields)
        IN  IF r.ok
            THEN [h |-> Append(r.h, Arr(h[d.a].e)), v |-> Ref(Len(r.h) + 1), ok |-> TRUE]
            ELSE [h |-> r.h, v |-> UNDEF, ok |-> FALSE]
    ELSE LET r == processItem(h, d, hiddenFields)
         IN  [h |-> r.h, v |-> IF r.ok THEN d ELSE UNDEF, ok |-> r.ok]

\* a document handed to hideFields has at most MaxHideNodes values
MaxHideNodes == 4

HideTable == TreeTable(<<DelLeaves \cup {Arr(<<>>)}>>, MaxHideNodes - 1)

\* hidden paths of one or two segments
HidePaths == PathsUpTo(2)

InitHide ==
    /\ \E list \in BOOLEAN :
           \E n \in 1..(IF list THEN MaxHideNodes - 1 ELSE MaxHideNodes) :
               \E K \in SUBSET Keys :
                   \E z \in SeqsOfSize(HideTable, Cardinality(K), n - 1) :
                       before = IF list THEN Arr(<<ObjOf(K, z)>>) ELSE ObjOf(K, z)
    /\ LET r == Alloc(<<>>, before)
       IN  heap = r.h /\ data = r.v
    /\ \/ paths = <<>>
       \/ \E p \in HidePaths : paths = <<p>>
       \/ \E p \in HidePaths : \E q \in HidePaths : paths = <<p, q>>
    /\ path = <<>> /\ schema = NONE /\ original = NONE /\ result = NONE /\ err = <<>>
    /\ set = NONE /\ unset = {} /\ set2 = NONE /\ unset2 = {}
    /\ threw = FALSE
    /\ pc = "start"
    /\ NoModel

\* model.hideFields(data, hiddenFields)
HideFields ==
    /\ pc = "start"
    /\ LET r == hideFields(heap, data, paths)
       IN  heap' = r.h /\ result' = r.v /\ threw' = ~r.ok
    /\ pc' = "hidden"
    /\ UNCHANGED <<data, before, path, set, unset, set2, unset2>>
    /\ UNCHANGED <<schema, original, paths, err>>
    /\ UNCHANGED mvars

NextHide == HideFields

SpecHide == InitHide /\ [][NextHide]_vars

RECURSIVE Deduplicated(_)
\* list ps with the first occurrence of every path only
Deduplicated(ps) ==
    IF ps = <<>> THEN <<>>
    ELSE LET init == Deduplicated(SubSeq(ps, 1, Len(ps) - 1))
         IN  IF \E i \in 1..(Len(ps) - 1) : ps[i] = ps[Len(ps)]
             THEN init ELSE Append(init, ps[Len(ps)])

\* C29: hideFields applies every distinct hidden path once: a list with
\* duplicates has the effect of the deduplicated list on the same document,
\* also for a path that ends in a numeric array index; the empty list
\* returns the data as it is.
C29_DuplicatesHideOnce ==
    pc = "hidden" =>
        LET r0 == Alloc(<<>>, before)
            r  == hideFields(r0.h, r0.v, Deduplicated(paths))
        IN  /\ threw = ~r.ok
            /\ Deref(heap, data) = Deref(r.h, r0.v)
            /\ ~threw => Deref(heap, result) = Deref(r.h, r.v)
            /\ paths = <<>> => result = data /\ Deref(heap, data) = before

\* the empty list alone
C29_EmptyListAlone ==
    (pc = "hidden" /\ paths = <<>>) => result = data /\ Deref(heap, data) = before

----------------------------------------------------------------------------
(* baseModel.ts: ModelMethodWorker.  _methods starts as {}, an object whose *)
(* prototype is Object.prototype: methods holds its own properties, and a  *)
(* property read that finds no own property goes on to the prototype.      *)

\* the names a caller binds and triggers, the functions a caller binds
MethodNames == {"m1", "m2", "toString"}
Functions == {"f", "g"}

\* properties every object inherits from Object.prototype (among others)
ObjectPrototype == {"constructor", "hasOwnProperty", "toString", "valueOf"}

\* this._methods[name]
MethodOf(ms, name) ==
    IF name \in DOMAIN ms THEN ms[name]
    ELSE IF name \in ObjectPrototype THEN "Object.prototype." \o name
    ELSE "undefined"

\* this._methods.hasOwnProperty(name); no name bound here shadows hasOwnProperty
hasOwnMethod(ms, name) == name \in DOMAIN ms

\* a worker takes at most MaxCalls calls
MaxCalls == 4

InitMethods ==
    /\ heap = <<>> /\ data = NONE /\ before = NONE
    /\ path = <<>>
    /\ set = NONE /\ unset = {} /\ set2 = NONE /\ unset2 = {}
    /\ threw = FALSE
    /\ pc = "start"
    /\ NoSchema
    /\ NoModel

\* worker.bind(name, fn)
Bind ==
    /\ Len(ops) < MaxCalls
    /\ \E name \in MethodNames : \E fn \in Functions :
           /\ ops' = Append(ops, [op |-> "bind", name |-> name, fn |-> fn])
           /\ IF hasOwnMethod(methods, name)
              THEN outcome' = "MethodExistedError" /\ methods' = methods
              ELSE /\ outcome' = "ok"
                   /\ methods' = [n \in DOMAIN methods \cup {name} |->
                                      IF n = name THEN fn ELSE methods[n]]
    /\ UNCHANGED <<heap, data, before, path, set, unset, set2, unset2, threw, pc>>
    /\ UNCHANGED svars
    /\ UNCHANGED <<option, outcome2, driver, errMap, called>>

\* worker.trigger(name, args)
Trigger ==
    /\ Len(ops) < MaxCalls
    /\ \E name \in MethodNames :
           /\ ops' = Append(ops, [op |-> "trigger", name |-> name, fn |-> "undefined"])
           /\ IF MethodOf(methods, name) = "undefined"
              THEN outcome' = "MethodNotFoundError" /\ called' = called
              ELSE outcome' = "ok" /\ called' = Append(called, MethodOf(methods, name))
    /\ UNCHANGED <<heap, data, before, path, set, unset, set2, unset2, threw, pc>>
    /\ UNCHANGED svars
    /\ UNCHANGED <<option, outcome2, driver, errMap, methods>>

NextMethods == Bind \/ Trigger

SpecMethods == InitMethods /\ [][NextMethods]_vars

\* the function of the first bind of name among calls cs, "undefined" if none
FirstBound(cs, name) ==
    LET binds == SelectSeq(cs, LAMBDA c : c.op = "bind" /\ c.name = name)
    IN  IF binds = <<>> THEN "undefined" ELSE Head(binds).fn

\* what the registry is to do on the call that takes ops to ops'
RegistryStep(names) ==
    LET call  == ops'[Len(ops')]
        bound == FirstBound(ops, call.name)
    IN  call.name \in names =>
        IF call.op = "bind" THEN
            /\ called' = called
            /\ IF bound # "undefined"
               THEN outcome' = "MethodExistedError" /\ methods' = methods
               ELSE /\ outcome' = "ok"
                    /\ DOMAIN methods' = DOMAIN methods \cup {call.name}
                    /\ methods'[call.name] = call.fn
                    /\ \A n \in DOMAIN methods : methods'[n] = methods[n]
        ELSE
            /\ methods' = methods
            /\ IF bound = "undefined"
               THEN outcome' = "MethodNotFoundError" /\ called' = called
               ELSE outcome' = "ok" /\ called' = Append(called, bound)

\* C30: in the method registry a name is bound at most once: bind of a bound
\* name throws MethodExistedError and leaves the binding as it was, trigger
\* of a name never bound throws MethodNotFoundError and calls nothing, and
\* trigger of a bound name calls exactly the function bound first.
C30_RegistryBindsOnce == [][RegistryStep(MethodNames)]_vars

\* the same for the names Object.prototype does not define
C30_OwnNamesAlone == [][RegistryStep(MethodNames \ ObjectPrototype)]_vars

====
